---- MODULE Spec2Model ----
(***************************************************************************)
(* Model of the serverless handlers of learning-assist/backend.            *)
(*                                                                         *)
(* Part 1: the AI proxy, gemini_lambda_function.py.  One invocation of     *)
(* lambda_handler is a process with two steps, split where it performs     *)
(* I/O that other invocations can observe:                                 *)
(*   Invoke    lambda_handler up to the outbound requests.post, including  *)
(*             the scan of the usage table made by check_rate_limit;       *)
(*   Upstream  the outbound call, the handling of its outcome, the         *)
(*             put_item of track_usage and the return.                     *)
(*                                                                         *)
(* JSON objects (Python dicts) are functions whose DOMAIN is the set of    *)
(* keys present: "k" \in DOMAIN d is Python's 'k' in d.  A JSON string     *)
(* produced by json.dumps(d) is the record [json |-> d].                   *)
(***************************************************************************)
EXTENDS Integers, Sequences, FiniteSets, Bags, TLC

VARIABLES
    usage_table,     \* DynamoDB table learning_assist_gemini_usage: a bag of items
    today,           \* the current UTC day, datetime.utcnow().strftime('%Y-%m-%d'), as a day number
    GEMINI_API_KEY,  \* TRUE iff os.environ holds a non-empty GEMINI_API_KEY
    CLAUDE_API_KEY,  \* TRUE iff os.environ holds a non-empty CLAUDE_API_KEY
    inv,             \* the invocations of lambda_handler: id -> its local state
    served,          \* invocations that have returned and whose container took the next event
    academic_records, \* DynamoDB table academic_records: <<record_id, topic_id>> -> item
    ar,              \* the last call of academic_records_lambda_function and its result
    topics_table,    \* DynamoDB table learning_assist_topics: id -> item
    tp,              \* the calls of the topics handler in flight: id -> local state
    users_table,     \* DynamoDB table of the auth handler: user_id -> item
    reg              \* the register_user calls in flight: id -> local state

vars == <<usage_table, today, GEMINI_API_KEY, CLAUDE_API_KEY, inv, served,
          academic_records, ar, topics_table, tp, users_table, reg>>

proxy_vars == <<usage_table, today, GEMINI_API_KEY, CLAUDE_API_KEY, inv, served>>

records_vars == <<academic_records, ar>>

topics_vars == <<topics_table, tp>>

users_vars == <<users_table, reg>>

\* The variables of the handlers other than the AI proxy.
services_vars == <<records_vars, topics_vars, users_vars>>

---------------------------------------------------------------------------
(* Bounds of the model. *)

\* Days the clock may reach; the run starts on day 1, day 0 is "yesterday".
MaxDay == 2

\* Longest 'contents' list of the requests whose translation is followed.
MaxContents == 2

\* Calls made to a handler in one run.
MaxCalls == 3

---------------------------------------------------------------------------
(* Python values. *)

EmptyDict == <<>>
Null == [null |-> TRUE]
NoneStr == "None"

dict_get(d, k, default) == IF k \in DOMAIN d THEN d[k] ELSE default

dict_without(d, k) == [x \in DOMAIN d \ {k} |-> d[x]]

json_dumps(d) == [json |-> d]

EmptyString == [raw |-> ""]

\* json.loads(event['body']) if event.get('body') else {}
\* A raw body is [syntax, fields]: absent (None or ''), malformed text, the text of
\* a JSON object with the given fields, or the text of a JSON array.
json_loads_body(raw) ==
    CASE raw.syntax = "absent"    -> [ok |-> TRUE,  isdict |-> TRUE,  d |-> EmptyDict]
      [] raw.syntax = "malformed" -> [ok |-> FALSE, isdict |-> FALSE, d |-> EmptyDict]
      [] raw.syntax = "object"    -> [ok |-> TRUE,  isdict |-> TRUE,  d |-> raw.fields]
      [] raw.syntax = "array"     -> [ok |-> TRUE,  isdict |-> FALSE, d |-> EmptyDict]

---------------------------------------------------------------------------
(* Program constants. *)

SUPPORTED_MODELS ==
    [m \in {"gemini-2.5-pro", "claude-3-5-sonnet-20241022"} |->
        IF m = "gemini-2.5-pro" THEN "gemini" ELSE "claude"]

\* list(SUPPORTED_MODELS.keys()): the keys in insertion order
\* Mutant of supported_model_list: only the default model is listed.
supported_model_list_default_only == <<"gemini-2.5-pro">>

supported_model_list == <<"gemini-2.5-pro", "claude-3-5-sonnet-20241022">>

ALLOWED_ENDPOINTS ==
    {"generate-content", "discover-documents", "enhance-section", "analyze-chapter"}

MAX_DAILY_REQUESTS == 1000

DEFAULT_MODEL == "gemini-2.5-pro"

Users == {"authenticated_user", "anonymous"}

\* No call of academic_records_lambda_function has been made.
NoRecordCall ==
    [calls |-> 0, op |-> "none", args |-> EmptyDict, record_id |-> <<>>,
     response |-> [statusCode |-> 0, body |-> EmptyString]]

\* A call of the topics handler, or of register_user, that has not started.
NotStarted == [pc |-> "idle"]

RecordsIdle ==
    /\ academic_records = <<>>
    /\ ar = NoRecordCall

TopicsIdle ==
    /\ topics_table = <<>>
    /\ tp = [p \in {1} |-> NotStarted]

UsersIdle ==
    /\ users_table = <<>>
    /\ reg = [p \in {1} |-> NotStarted]

\* The other handlers at rest, their tables empty.
ServicesIdle == RecordsIdle /\ TopicsIdle /\ UsersIdle

---------------------------------------------------------------------------
(* Events lambda_handler is invoked with. *)

\* A header value is the pair <<its first seven characters, the rest>>.
HeaderValues == {<<"Bearer ", "t1">>, <<"Basic x", "">>}

Headers == {Null, EmptyDict} \cup {[Authorization |-> h] : h \in HeaderValues}

PathParameters ==
    {Null, EmptyDict} \cup {[proxy |-> p] : p \in ALLOWED_ENDPOINTS \cup {"unknown-endpoint"}}

\* The 'contents' of a canonical request: role-tagged lists of text parts.
Contents ==
    { <<[role |-> "user", parts |-> <<[text |-> "a"], [text |-> "b"]>>],
        [role |-> "model", parts |-> <<[text |-> "b"]>>]>> }

ModelNames == DOMAIN SUPPORTED_MODELS \cup {"gpt-4"}

BodyFields ==
    {EmptyDict}
    \cup {[model |-> m] : m \in ModelNames}
    \cup {[contents |-> c] : c \in Contents}
    \cup {[model |-> m, contents |-> c] : m \in ModelNames, c \in Contents}

RawBodies ==
    {[syntax |-> s, fields |-> EmptyDict] : s \in {"absent", "malformed", "array"}}
    \cup {[syntax |-> "object", fields |-> f] : f \in BodyFields}

Events ==
    [httpMethod : {"POST", "OPTIONS"}, body : RawBodies,
     headers : Headers, pathParameters : PathParameters]

NoEvent ==
    [httpMethod |-> "", body |-> [syntax |-> "absent", fields |-> EmptyDict],
     headers |-> EmptyDict, pathParameters |-> EmptyDict]

---------------------------------------------------------------------------
(* The usage table. *)

\* An item of the table.  usage_id (a fresh uuid4) and timestamp are not kept:
\* every put_item adds one more item, which the bag counts.  The endpoint
\* attribute f"{endpoint_name}-{model}" is the pair of its two parts.
usage_item(user_id, endpoint, tokens_used, date) ==
    [user_id |-> user_id, endpoint |-> endpoint, tokens_used |-> tokens_used, date |-> date]

SeedItem(u, d) == usage_item(u, <<"generate-content", DEFAULT_MODEL>>, 0, d)

\* Tables the handler may find: per user, no items, one short of the ceiling or
\* the ceiling today, and nothing or the ceiling yesterday.
SeedCounts ==
    { [u \in Users |-> 0] }
    \cup { [u \in Users |-> IF u = full THEN MAX_DAILY_REQUESTS ELSE MAX_DAILY_REQUESTS - 1]
            : full \in Users }

SeedTables ==
    { [it \in {SeedItem(u, 1) : u \in {x \in Users : t[x] > 0}}
             \cup {SeedItem(u, 0) : u \in {x \in Users : y > 0}}
          |-> IF it.date = 1 THEN t[it.user_id] ELSE y]
      : t \in SeedCounts, y \in {0, MAX_DAILY_REQUESTS} }

\* Mutant of scan_filter: the items of the day before are counted.
scan_filter_day_before(item, uid, day) == item.user_id = uid /\ item.date = day - 1

\* FilterExpression='user_id = :uid AND #date = :today'
scan_filter(item, uid, day) == item.user_id = uid /\ item.date = day

\* usage_table.scan(...)['Items'], as a bag
scan(table, uid, day) ==
    [it \in {x \in DOMAIN table : scan_filter(x, uid, day)} |-> table[it]]

\* Mutants of rate_limit_allowed: the ceiling itself still allowed; no ceiling.
rate_limit_allowed_inclusive(daily_requests) == daily_requests <= MAX_DAILY_REQUESTS

rate_limit_allowed_always(daily_requests) == TRUE

\* return daily_requests < MAX_DAILY_REQUESTS, daily_requests
rate_limit_allowed(daily_requests) == daily_requests < MAX_DAILY_REQUESTS

\* Mutant of check_rate_limit: a failed scan blocks the caller.
check_rate_limit_fail_closed(user_id, scan_ok) ==
    IF scan_ok
    THEN LET daily_requests == BagCardinality(scan(usage_table, user_id, today))
         IN  <<rate_limit_allowed(daily_requests), daily_requests>>
    ELSE <<FALSE, 0>>

\* check_rate_limit: <<allowed, daily_requests>>; scan_ok is whether the scan
\* returned or raised.
check_rate_limit(user_id, scan_ok) ==
    IF scan_ok
    THEN LET daily_requests == BagCardinality(scan(usage_table, user_id, today))
         IN  <<rate_limit_allowed(daily_requests), daily_requests>>
    ELSE <<TRUE, 0>>

\* Mutant of track_usage: a conditional write, refused once the caller's items
\* of the day have reached the ceiling.
track_usage_conditional(table, user_id, endpoint, tokens_used, put_ok) ==
    IF put_ok /\ BagCardinality(scan(table, user_id, today)) < MAX_DAILY_REQUESTS
    THEN table (+) SetToBag({usage_item(user_id, endpoint, tokens_used, today)})
    ELSE table

\* usage_table.put_item(Item=...) inside track_usage; put_ok is whether it
\* returned or raised (the exception is logged and swallowed).
track_usage(table, user_id, endpoint, tokens_used, put_ok) ==
    IF put_ok
    THEN table (+) SetToBag({usage_item(user_id, endpoint, tokens_used, today)})
    ELSE table

---------------------------------------------------------------------------
(* lambda_handler, up to the outbound call. *)

starts_with_bearer(auth_header) == auth_header[1] = "Bearer "

\* Mutant of extract_user_from_token: the token is taken for the identity.
extract_user_from_token_by_value(headers) ==
    IF headers = Null
    THEN "anonymous"
    ELSE IF "Authorization" \in DOMAIN headers /\ starts_with_bearer(headers.Authorization)
         THEN headers.Authorization[2]
         ELSE "anonymous"

extract_user_from_token(headers) ==
    IF headers = Null
    THEN "anonymous"                     \* headers.get raises, except: pass
    ELSE IF "Authorization" \in DOMAIN headers /\ starts_with_bearer(headers.Authorization)
         THEN "authenticated_user"
         ELSE "anonymous"

\* An invocation's local state.  scans, posts, puts and written record the I/O it
\* has performed: scans of the usage table, providers POSTed to, put_item calls
\* and the items those stored.
Idle ==
    [pc |-> "idle", event |-> NoEvent, user_id |-> "", endpoint |-> "", model |-> "",
     adapter |-> "", scans |-> 0, scan |-> [ok |-> FALSE, count |-> 0, day |-> 0],
     posts |-> <<>>, request |-> EmptyDict, puts |-> 0, written |-> <<>>,
     up |-> [kind |-> "none"],
     response |-> [statusCode |-> 0, body |-> EmptyString]]

return(st, statusCode, body) ==
    [st EXCEPT !.pc = "done", !.response = [statusCode |-> statusCode, body |-> body]]

\* An error message is the tuple of the pieces of its (f-)string.
return_error(st, statusCode, message) ==
    return(st, statusCode, json_dumps([error |-> message]))

\* except Exception as e, lines 84-86: str(e) is sent to the caller
internal_server_error(st, exception_text) ==
    return(st, 500, json_dumps([error |-> <<"Internal server error">>, details |-> exception_text]))

---------------------------------------------------------------------------
(* Request translation. *)

RECURSIVE part_messages(_, _)
\* for part in content['parts']: if 'text' in part: messages.append(...)
part_messages(role, parts) ==
    IF parts = <<>> THEN <<>>
    ELSE (IF "text" \in DOMAIN Head(parts)
          THEN <<[role |-> role, content |-> Head(parts).text]>>
          ELSE <<>>) \o part_messages(role, Tail(parts))

claude_role(content) ==
    IF dict_get(content, "role", "user") = "user" THEN "user" ELSE "assistant"

RECURSIVE content_messages(_)
\* for content in gemini_body['contents']: ...
content_messages(contents) ==
    IF contents = <<>> THEN <<>>
    ELSE (IF "parts" \in DOMAIN Head(contents)
          THEN part_messages(claude_role(Head(contents)), Head(contents).parts)
          ELSE <<>>) \o content_messages(Tail(contents))

\* A float is the pair <<numerator, denominator>>.
convert_gemini_to_claude_format(gemini_body, model) ==
    LET messages == IF "contents" \in DOMAIN gemini_body
                    THEN content_messages(gemini_body.contents) ELSE <<>>
        generation_config == dict_get(gemini_body, "generationConfig", EmptyDict)
    IN  [model |-> model,
         messages |-> messages,
         max_tokens |-> dict_get(generation_config, "maxOutputTokens", 4096),
         temperature |-> dict_get(generation_config, "temperature", <<7, 10>>)]

---------------------------------------------------------------------------
(* handle_ai_proxy and the adapters, up to the outbound call. *)

\* handle_gemini_request, lines 190-204
handle_gemini_request_begin(st, body) ==
    IF ~GEMINI_API_KEY
    THEN return_error(st, 500, <<"Gemini API key not configured">>)
    ELSE [st EXCEPT !.pc = "called", !.request = dict_without(body, "model")]

\* handle_claude_request, lines 262-270
handle_claude_request_begin(st, body, model) ==
    IF ~CLAUDE_API_KEY
    THEN return_error(st, 500, <<"Claude API key not configured">>)
    ELSE [st EXCEPT !.pc = "called", !.request = convert_gemini_to_claude_format(body, model)]

\* Mutant of select_adapter: every model is sent to the Gemini adapter.
select_adapter_gemini_only(model_provider) == "gemini"

\* if model_provider == 'gemini': ... elif model_provider == 'claude': ... else: ...
select_adapter(model_provider) ==
    IF model_provider = "gemini" THEN "gemini"
    ELSE IF model_provider = "claude" THEN "claude"
    ELSE "unknown"

dispatch(st, body, model) ==
    LET model_provider == SUPPORTED_MODELS[model]
        adapter == select_adapter(model_provider)
        st1 == [st EXCEPT !.adapter = adapter]
    IN  CASE adapter = "gemini" -> handle_gemini_request_begin(st1, body)
          [] adapter = "claude" -> handle_claude_request_begin(st1, body, model)
          [] OTHER -> return_error(st1, 400, <<"Unknown model provider: ", model_provider>>)

handle_ai_proxy(st, endpoint_name, body, user_id, scan_ok) ==
    LET rl == check_rate_limit(user_id, scan_ok)
        allowed == rl[1]
        current_usage == rl[2]
        st1 == [st EXCEPT !.endpoint = endpoint_name, !.scans = @ + 1,
                          !.scan = [ok |-> scan_ok, count |-> current_usage, day |-> today]]
    IN  IF ~allowed
        THEN return(st1, 429, json_dumps([error |-> <<"Daily rate limit exceeded">>,
                                          current_usage |-> current_usage]))
        ELSE IF ~body.isdict
        THEN \* body.get raises AttributeError outside the try of line 168
             internal_server_error(st1, "'list' object has no attribute 'get'")
        ELSE LET model == dict_get(body.d, "model", DEFAULT_MODEL)
                 st2 == [st1 EXCEPT !.model = model]
             IN  IF model \notin DOMAIN SUPPORTED_MODELS
                 THEN return_error(st2, 400, <<"Unsupported model: ", model,
                                               ". Supported models: ", supported_model_list>>)
                 ELSE dispatch(st2, body.d, model)

\* Mutant of no_api_keys: the configuration check is missing.
no_api_keys_unchecked == FALSE

\* if not GEMINI_API_KEY and not CLAUDE_API_KEY
no_api_keys == ~GEMINI_API_KEY /\ ~CLAUDE_API_KEY

\* Mutant of is_options: the preflight is answered only after the key check.
is_options_after_key_check(event) == event.httpMethod = "OPTIONS" /\ ~no_api_keys

\* if event.get('httpMethod') == 'OPTIONS'
is_options(event) == event.httpMethod = "OPTIONS"

\* Mutant of endpoint_allowed: every path is routed to handle_ai_proxy.
endpoint_allowed_any(path) == TRUE

\* if path in ALLOWED_ENDPOINTS
endpoint_allowed(path) == path \in ALLOWED_ENDPOINTS

lambda_handler(st0, event, scan_ok) ==
    LET st == [st0 EXCEPT !.event = event]
    IN  IF is_options(event) THEN return(st, 200, EmptyString)
        ELSE IF no_api_keys
        THEN return_error(st, 500, <<"No API keys configured on server">>)
        ELSE LET body == json_loads_body(event.body)
             IN  IF ~body.ok
                 THEN return_error(st, 400, <<"Invalid JSON in request body">>)
                 ELSE LET user_id == extract_user_from_token(event.headers)
                          st1 == [st EXCEPT !.user_id = user_id]
                      IN  IF event.pathParameters = Null
                          THEN internal_server_error(st1, "'NoneType' object has no attribute 'get'")
                          ELSE LET path == dict_get(event.pathParameters, "proxy", NoneStr)
                               IN  IF endpoint_allowed(path)
                                   THEN handle_ai_proxy(st1, path, body, user_id, scan_ok)
                                   ELSE return_error(st1, 404, <<"Endpoint not found">>)

---------------------------------------------------------------------------
(* What the upstream provider may answer. *)

UpstreamStatus == {200, 429, 500}

Failures == {[kind |-> "timeout"], [kind |-> "connection_error"]}

\* A response whose body is not JSON makes response.json() raise: a ValueError
\* with requests < 2.27, a RequestException subclass from 2.27 on.
JsonErrors == {"ValueError", "RequestException"}

GeminiCandidate(reason) ==
    [content |-> [parts |-> <<[text |-> "a"]>>], finishReason |-> reason]

GeminiCandidateLists ==
    {<<>>, <<GeminiCandidate("STOP")>>, <<GeminiCandidate("MAX_TOKENS")>>}

GeminiUsage == {EmptyDict, [totalTokenCount |-> 7]}

GeminiBodies ==
    {EmptyDict}
    \cup {[candidates |-> c] : c \in GeminiCandidateLists}
    \cup {[usageMetadata |-> u] : u \in GeminiUsage}
    \cup {[candidates |-> c, usageMetadata |-> u] : c \in GeminiCandidateLists, u \in GeminiUsage}

ClaudeContents == {<<>>, <<[type |-> "text", text |-> "a"]>>}

ClaudeStopReasons == {"max_tokens", "end_turn", "stop_sequence"}

ClaudeUsage ==
    {EmptyDict, [input_tokens |-> 3], [output_tokens |-> 4],
     [input_tokens |-> 3, output_tokens |-> 4]}

ClaudeBodies ==
    {EmptyDict}
    \cup {[content |-> c, stop_reason |-> r] : c \in ClaudeContents, r \in ClaudeStopReasons}
    \cup {[content |-> c, usage |-> u] : c \in ClaudeContents, u \in ClaudeUsage}
    \cup {[content |-> c, stop_reason |-> r, usage |-> u] :
            c \in ClaudeContents, r \in ClaudeStopReasons, u \in ClaudeUsage}

Responses(bodies) ==
    {[kind |-> "response", status_code |-> s, json_error |-> "none", body |-> b] :
        s \in UpstreamStatus, b \in bodies}
    \cup {[kind |-> "response", status_code |-> s, json_error |-> e, body |-> EmptyDict] :
        s \in UpstreamStatus, e \in JsonErrors}

Outcomes(adapter) ==
    Failures \cup Responses(IF adapter = "gemini" THEN GeminiBodies ELSE ClaudeBodies)

---------------------------------------------------------------------------
(* Response translation. *)

\* Mutant of claude_text_content: the last content block is taken.
claude_text_content_last_block(claude_response) ==
    IF "content" \in DOMAIN claude_response /\ claude_response.content # <<>>
    THEN dict_get(claude_response.content[Len(claude_response.content)], "text", "")
    ELSE ""

\* lines 357-360
claude_text_content(claude_response) ==
    IF "content" \in DOMAIN claude_response /\ claude_response.content # <<>>
    THEN dict_get(claude_response.content[1], "text", "")
    ELSE ""

\* Mutant of claude_finish_reason: the stop reason is not translated.
claude_finish_reason_always_stop(claude_response) == "STOP"

\* lines 362-367
claude_finish_reason(claude_response) ==
    IF "stop_reason" \in DOMAIN claude_response
       /\ claude_response.stop_reason = "max_tokens"
    THEN "MAX_TOKENS" ELSE "STOP"

convert_claude_to_gemini_format(claude_response) ==
    LET text_content == claude_text_content(claude_response)
        finish_reason == claude_finish_reason(claude_response)
        tokens_used ==
            IF "usage" \in DOMAIN claude_response
            THEN dict_get(claude_response.usage, "input_tokens", 0)
                 + dict_get(claude_response.usage, "output_tokens", 0)
            ELSE 0
    IN  [candidates |-> <<[content |-> [parts |-> <<[text |-> text_content]>>],
                           finishReason |-> finish_reason]>>,
         usageMetadata |-> [totalTokenCount |-> tokens_used]]

---------------------------------------------------------------------------
(* The adapters, from the outbound call on.  Each yields the invocation's *)
(* final state and the usage table it leaves.                             *)

no_track(st) == [st |-> st, table |-> usage_table]

\* except Exception as e, lines 180-186 of handle_ai_proxy
failed_to_generate(st) == no_track(return_error(st, 500, <<"Failed to generate content">>))

\* Mutant of track_and_return: an exception of put_item is not caught in
\* track_usage and reaches the except clause of handle_ai_proxy.
track_and_return_raising(st, tokens_used, statusCode, body, put_ok) ==
    IF put_ok
    THEN [st |-> return([st EXCEPT !.puts = @ + 1,
                                   !.written = Append(@, usage_item(st.user_id,
                                        <<st.endpoint, st.model>>, tokens_used, today))],
                        statusCode, json_dumps(body)),
          table |-> track_usage(usage_table, st.user_id, <<st.endpoint, st.model>>,
                                tokens_used, put_ok)]
    ELSE failed_to_generate([st EXCEPT !.puts = @ + 1])

\* track_usage(user_id, f"{endpoint_name}-{model}", tokens_used), then return
track_and_return(st, tokens_used, statusCode, body, put_ok) ==
    LET endpoint == <<st.endpoint, st.model>>
        item == usage_item(st.user_id, endpoint, tokens_used, today)
        st1 == [st EXCEPT !.puts = @ + 1,
                          !.written = IF put_ok THEN Append(@, item) ELSE @]
    IN  [st |-> return(st1, statusCode, json_dumps(body)),
         table |-> track_usage(usage_table, st.user_id, endpoint, tokens_used, put_ok)]

\* Mutant of upstream_failure: RequestException is caught before its subclass
\* Timeout.
upstream_failure_timeout_shadowed(st, outcome, provider_name) ==
    CASE outcome.kind \in {"timeout", "connection_error"} ->
            no_track(return_error(st, 502, <<"Failed to connect to ", provider_name, " API">>))
      [] outcome.kind = "response" /\ outcome.json_error = "RequestException" ->
            no_track(return_error(st, 502, <<"Failed to connect to ", provider_name, " API">>))
      [] outcome.kind = "response" /\ outcome.json_error = "ValueError" ->
            failed_to_generate(st)

\* requests.exceptions.Timeout / RequestException, and the exception of response.json()
upstream_failure(st, outcome, provider_name) ==
    CASE outcome.kind = "timeout" ->
            no_track(return_error(st, 504, <<"Request timeout">>))
      [] outcome.kind = "connection_error" ->
            no_track(return_error(st, 502, <<"Failed to connect to ", provider_name, " API">>))
      [] outcome.kind = "response" /\ outcome.json_error = "RequestException" ->
            no_track(return_error(st, 502, <<"Failed to connect to ", provider_name, " API">>))
      [] outcome.kind = "response" /\ outcome.json_error = "ValueError" ->
            failed_to_generate(st)

completed(outcome) == outcome.kind = "response" /\ outcome.json_error = "none"

\* Mutant of max_tokens_check: the status code is not looked at.
max_tokens_check_any_status(status_code, response_body) ==
    IF "candidates" \in DOMAIN response_body
    THEN IF response_body.candidates = <<>>
         THEN "IndexError"
         ELSE IF dict_get(response_body.candidates[1], "finishReason", NoneStr) = "MAX_TOKENS"
              THEN "max_tokens" ELSE "pass"
    ELSE "pass"

\* line 223; candidates[0] of an empty list raises IndexError
max_tokens_check(status_code, response_body) ==
    IF status_code = 200 /\ "candidates" \in DOMAIN response_body
    THEN IF response_body.candidates = <<>>
         THEN "IndexError"
         ELSE IF dict_get(response_body.candidates[1], "finishReason", NoneStr) = "MAX_TOKENS"
              THEN "max_tokens" ELSE "pass"
    ELSE "pass"

gemini_tokens_used(response_body) ==
    IF "usageMetadata" \in DOMAIN response_body
    THEN dict_get(response_body.usageMetadata, "totalTokenCount", 0)
    ELSE 0

\* handle_gemini_request, lines 210-258
handle_gemini_request_end(st, outcome, put_ok) ==
    IF ~completed(outcome) THEN upstream_failure(st, outcome, "Gemini")
    ELSE LET response_body == outcome.body
             check == max_tokens_check(outcome.status_code, response_body)
         IN  CASE check = "IndexError" -> failed_to_generate(st)
               [] check = "max_tokens" ->
                    no_track(return_error(st, 422,
                        <<"Output token limit exceeded. Try a shorter prompt or reduce the complexity of your request.">>))
               [] OTHER ->
                    track_and_return(st, gemini_tokens_used(response_body),
                                     outcome.status_code, response_body, put_ok)

\* Mutant of claude_tokens_used: the output tokens are left out.
claude_tokens_used_input_only(response_body) ==
    IF "usage" \in DOMAIN response_body
    THEN dict_get(response_body.usage, "input_tokens", 0)
    ELSE 0

claude_tokens_used(response_body) ==
    IF "usage" \in DOMAIN response_body
    THEN dict_get(response_body.usage, "input_tokens", 0)
         + dict_get(response_body.usage, "output_tokens", 0)
    ELSE 0

\* handle_claude_request, lines 272-320
handle_claude_request_end(st, outcome, put_ok) ==
    IF ~completed(outcome) THEN upstream_failure(st, outcome, "Claude")
    ELSE LET response_body == outcome.body
             gemini_format_response == convert_claude_to_gemini_format(response_body)
         IN  track_and_return(st, claude_tokens_used(response_body),
                              outcome.status_code, gemini_format_response, put_ok)

---------------------------------------------------------------------------
(* Actions. *)

Invocations == DOMAIN inv

\* An event of the given set arrives: lambda_handler runs until it returns or is
\* about to call requests.post.  scans is what the scan of the usage table may
\* do: return (TRUE) or raise (FALSE).
InvokeWith(i, events, scans) ==
    /\ inv[i].pc = "idle"
    /\ \E event \in events, scan_ok \in scans :
          inv' = [inv EXCEPT ![i] = lambda_handler(inv[i], event, scan_ok)]
    /\ UNCHANGED <<usage_table, today, GEMINI_API_KEY, CLAUDE_API_KEY, served, services_vars>>

InvokeFrom(i, events) == InvokeWith(i, events, BOOLEAN)

Invoke(i) == InvokeFrom(i, Events)

\* Mutant of UpstreamFrom: after a first timeout the call is made once more.
UpstreamFrom_retry_on_timeout(i, outcomes) ==
    /\ inv[i].pc = "called"
    /\ \E outcome \in outcomes, put_ok \in BOOLEAN :
          LET st == [inv[i] EXCEPT !.posts = Append(@, inv[i].adapter), !.up = outcome]
              r == IF st.adapter = "gemini"
                   THEN handle_gemini_request_end(st, outcome, put_ok)
                   ELSE handle_claude_request_end(st, outcome, put_ok)
          IN  IF outcome.kind = "timeout" /\ inv[i].posts = <<>>
              THEN /\ inv' = [inv EXCEPT ![i].posts = Append(@, inv[i].adapter)]
                   /\ usage_table' = usage_table
              ELSE /\ inv' = [inv EXCEPT ![i] = r.st]
                   /\ usage_table' = r.table
    /\ UNCHANGED <<today, GEMINI_API_KEY, CLAUDE_API_KEY, served, services_vars>>

\* requests.post returns or raises with one of the given outcomes; the adapter
\* finishes.  puts is what put_item may do: return (TRUE) or raise (FALSE).
UpstreamWith(i, outcomes, puts) ==
    /\ inv[i].pc = "called"
    /\ \E outcome \in outcomes, put_ok \in puts :
          LET st == [inv[i] EXCEPT !.posts = Append(@, inv[i].adapter), !.up = outcome]
              r == IF st.adapter = "gemini"
                   THEN handle_gemini_request_end(st, outcome, put_ok)
                   ELSE handle_claude_request_end(st, outcome, put_ok)
          IN  /\ inv' = [inv EXCEPT ![i] = r.st]
              /\ usage_table' = r.table
    /\ UNCHANGED <<today, GEMINI_API_KEY, CLAUDE_API_KEY, served, services_vars>>

UpstreamFrom(i, outcomes) == UpstreamWith(i, outcomes, BOOLEAN)

Upstream(i) == UpstreamFrom(i, Outcomes(inv[i].adapter))

\* Midnight UTC passes.
Tick ==
    /\ today < MaxDay
    /\ today' = today + 1
    /\ UNCHANGED <<usage_table, GEMINI_API_KEY, CLAUDE_API_KEY, inv, served, services_vars>>

Init ==
    /\ usage_table \in SeedTables
    /\ today = 1
    /\ GEMINI_API_KEY \in BOOLEAN
    /\ CLAUDE_API_KEY \in BOOLEAN
    /\ inv = [i \in {1} |-> Idle]
    /\ served = 0
    /\ ServicesIdle

Next ==
    \/ \E i \in Invocations : Invoke(i)
    \/ \E i \in Invocations : Upstream(i)
    \/ Tick

Spec == Init /\ [][Next]_vars

---------------------------------------------------------------------------
(* Two invocations of lambda_handler in flight at once: Lambda runs them in *)
(* separate containers against the one usage table, and nothing in          *)
(* check_rate_limit (a scan) and track_usage (a later put_item) makes the   *)
(* pair atomic.                                                             *)

\* Generation requests of either caller for either provider.
RaceEvents ==
    {e \in Events :
        /\ e.httpMethod = "POST"
        /\ e.pathParameters = [proxy |-> "generate-content"]
        /\ e.headers \in {EmptyDict, [Authorization |-> <<"Bearer ", "t1">>]}
        /\ e.body.syntax = "object"
        /\ e.body.fields \in {[model |-> m] : m \in DOMAIN SUPPORTED_MODELS}}

\* The upstream times out or answers 200 with a body of usage figures only.
RaceOutcomes(adapter) ==
    {o \in Outcomes(adapter) :
        \/ o.kind = "timeout"
        \/ completed(o) /\ o.status_code = 200
              /\ DOMAIN o.body \subseteq {"usageMetadata", "usage"}}

InvokeRace(i) == InvokeFrom(i, RaceEvents)

UpstreamRace(i) == UpstreamFrom(i, RaceOutcomes(inv[i].adapter))

InitRace ==
    /\ usage_table \in SeedTables
    /\ today = 1
    /\ GEMINI_API_KEY = TRUE
    /\ CLAUDE_API_KEY = TRUE
    /\ inv = [i \in {1, 2} |-> Idle]
    /\ served = 0
    /\ ServicesIdle

NextRace ==
    \/ \E i \in Invocations : InvokeRace(i)
    \/ \E i \in Invocations : UpstreamRace(i)
    \/ Tick

SpecRace == InitRace /\ [][NextRace]_vars

---------------------------------------------------------------------------
(* One container serving one event after another, against a usage table     *)
(* whose scan and put_item do not fail.                                     *)

InvokeSequential(i) == InvokeWith(i, RaceEvents, {TRUE})

UpstreamSequential(i) == UpstreamWith(i, RaceOutcomes(inv[i].adapter), {TRUE})

\* The invocation has returned; the container takes the next event.
NextEvent(i) ==
    /\ inv[i].pc = "done"
    /\ served < MaxCalls
    /\ served' = served + 1
    /\ inv' = [inv EXCEPT ![i] = Idle]
    /\ UNCHANGED <<usage_table, today, GEMINI_API_KEY, CLAUDE_API_KEY, services_vars>>

InitSequential ==
    /\ usage_table \in SeedTables
    /\ today = 1
    /\ GEMINI_API_KEY = TRUE
    /\ CLAUDE_API_KEY = TRUE
    /\ inv = [i \in {1} |-> Idle]
    /\ served = 0
    /\ ServicesIdle

NextSequential ==
    \/ \E i \in Invocations : InvokeSequential(i)
    \/ \E i \in Invocations : UpstreamSequential(i)
    \/ \E i \in Invocations : NextEvent(i)
    \/ Tick

SpecSequential == InitSequential /\ [][NextSequential]_vars

---------------------------------------------------------------------------
(* Generation requests that differ in their headers only: several bearer    *)
(* tokens, another scheme, no Authorization header, no headers.             *)

Tokens == {"t1", "t2", ""}

TokenHeaders ==
    {Null, EmptyDict, [Authorization |-> <<"Basic x", "">>]}
    \cup {[Authorization |-> <<"Bearer ", t>>] : t \in Tokens}

TokenEvents ==
    {[httpMethod |-> "POST",
      body |-> [syntax |-> "absent", fields |-> EmptyDict],
      headers |-> h,
      pathParameters |-> [proxy |-> "generate-content"]] : h \in TokenHeaders}

InvokeTokens(i) == InvokeFrom(i, TokenEvents)

UpstreamTokens(i) == UpstreamFrom(i, RaceOutcomes(inv[i].adapter))

InitTokens ==
    /\ usage_table \in SeedTables
    /\ today = 1
    /\ GEMINI_API_KEY = TRUE
    /\ CLAUDE_API_KEY = TRUE
    /\ inv = [i \in {1} |-> Idle]
    /\ served = 0
    /\ ServicesIdle

NextTokens ==
    \/ \E i \in Invocations : InvokeTokens(i)
    \/ \E i \in Invocations : UpstreamTokens(i)
    \/ Tick

SpecTokens == InitTokens /\ [][NextTokens]_vars

---------------------------------------------------------------------------
(* Claude-backed calls with varied 'contents', answered by an upstream that *)
(* sends the messages back: the two translations applied in one call.       *)

\* Lists of parts: text parts, and a part without 'text', which the
\* translation skips.
PartLists ==
    { <<>>,
      <<[text |-> "a"]>>,
      <<[text |-> "b"], [text |-> "a"]>>,
      <<[inlineData |-> "x"]>>,
      <<[text |-> "a"], [inlineData |-> "x"], [text |-> "b"]>> }

\* A content of a canonical request: with a role or without, with parts or
\* without.
ContentEntries ==
    {[role |-> r, parts |-> p] : r \in {"user", "model"}, p \in PartLists}
    \cup {[parts |-> p] : p \in {<<[text |-> "b"]>>}}
    \cup {[role |-> "user"]}

ContentLists == UNION {[1..n -> ContentEntries] : n \in 0..MaxContents}

RoundTripEvents ==
    {[httpMethod |-> "POST",
      body |-> [syntax |-> "object",
                fields |-> [model |-> "claude-3-5-sonnet-20241022", contents |-> c]],
      headers |-> [Authorization |-> <<"Bearer ", "t1">>],
      pathParameters |-> [proxy |-> "generate-content"]] : c \in ContentLists}

\* The body of an upstream that answers with the text of every message it was
\* sent, one content block per message.
EchoBody(request) ==
    [content |-> [k \in 1..Len(request.messages) |->
                    [type |-> "text", text |-> request.messages[k].content]],
     stop_reason |-> "end_turn",
     usage |-> [input_tokens |-> Len(request.messages), output_tokens |-> Len(request.messages)]]

RoundTripOutcomes(request) ==
    {[kind |-> "timeout"],
     [kind |-> "response", status_code |-> 200, json_error |-> "none",
      body |-> EchoBody(request)],
     [kind |-> "response", status_code |-> 200, json_error |-> "none",
      body |-> [content |-> <<[type |-> "text", text |-> "b"], [type |-> "text", text |-> "a"]>>,
                stop_reason |-> "max_tokens"]]}

InvokeRoundTrip(i) == InvokeFrom(i, RoundTripEvents)

UpstreamRoundTrip(i) == UpstreamFrom(i, RoundTripOutcomes(inv[i].request))

InitRoundTrip ==
    /\ usage_table \in {t \in SeedTables : DOMAIN t = {}}
    /\ today = 1
    /\ GEMINI_API_KEY = TRUE
    /\ CLAUDE_API_KEY = TRUE
    /\ inv = [i \in {1} |-> Idle]
    /\ served = 0
    /\ ServicesIdle

NextRoundTrip ==
    \/ \E i \in Invocations : InvokeRoundTrip(i)
    \/ \E i \in Invocations : UpstreamRoundTrip(i)

SpecRoundTrip == InitRoundTrip /\ [][NextRoundTrip]_vars

---------------------------------------------------------------------------
(* Vocabulary of the properties: what an event asks for, read off the event *)
(* itself, and what an invocation answered.                                 *)

Done(i) == inv[i].pc = "done"

Status(i) == inv[i].response.statusCode

ErrorBody(message) == [json |-> [error |-> message]]

NoIO(i) ==
    /\ inv[i].scans = 0
    /\ inv[i].posts = <<>>
    /\ inv[i].puts = 0
    /\ inv[i].written = <<>>

SpecEndpoints ==
    {"generate-content", "discover-documents", "enhance-section", "analyze-chapter"}

IsOptions(e) == e.httpMethod = "OPTIONS"

KeysConfigured == GEMINI_API_KEY \/ CLAUDE_API_KEY

MalformedJson(e) == e.body.syntax = "malformed"

\* The endpoint the event names (None when pathParameters has no 'proxy').
NamesEndpoint(e) == e.pathParameters # Null

EndpointName(e) ==
    IF "proxy" \in DOMAIN e.pathParameters THEN e.pathParameters.proxy ELSE NoneStr

UnknownEndpoint(e) == NamesEndpoint(e) /\ EndpointName(e) \notin SpecEndpoints

KnownEndpoint(e) == NamesEndpoint(e) /\ EndpointName(e) \in SpecEndpoints

BodyIsObject(e) == e.body.syntax \in {"absent", "object"}

RequestFields(e) == IF e.body.syntax = "object" THEN e.body.fields ELSE EmptyDict

RequestedModel(e) ==
    IF "model" \in DOMAIN RequestFields(e) THEN RequestFields(e).model ELSE "gemini-2.5-pro"

ModelSupported(e) == RequestedModel(e) \in DOMAIN SUPPORTED_MODELS

\* A POST that passes the key, JSON and endpoint checks: it enters handle_ai_proxy.
EntersProxy(e) ==
    /\ ~IsOptions(e)
    /\ KeysConfigured
    /\ ~MalformedJson(e)
    /\ KnownEndpoint(e)

\* The usage table as invocation i found it: without what i itself wrote.
TableBefore(i) ==
    usage_table (-) SetToBag({inv[i].written[k] : k \in 1..Len(inv[i].written)})

\* Number of items of the table for a user dated on a day.
RecordsOn(table, user, day) ==
    BagCardinality([it \in {x \in DOMAIN table : x.user_id = user /\ x.date = day}
                        |-> table[it]])

\* Number of items of the table for a user dated on any other day.
RecordsOff(table, user, day) ==
    BagCardinality([it \in {x \in DOMAIN table : x.user_id = user /\ x.date # day}
                        |-> table[it]])

\* Invocation i read the quota store successfully, on the day it records.
ReadQuota(i) == inv[i].scans = 1 /\ inv[i].scan.ok

CountSeen(i) == RecordsOn(TableBefore(i), inv[i].user_id, inv[i].scan.day)

\* Invocation i was rejected by the quota check (an upstream 429 is passed on
\* too, after a POST and with the upstream's body).
QuotaRejected(i) ==
    /\ Status(i) = 429
    /\ inv[i].posts = <<>>
    /\ "error" \in DOMAIN inv[i].response.body.json
    /\ inv[i].response.body.json.error = <<"Daily rate limit exceeded">>

---------------------------------------------------------------------------
(* C1 *)

\* C1: quota threshold and bucketing.  An invocation that read the quota store
\* when it held exactly MAX_DAILY_REQUESTS items of the caller's user_id dated
\* the current UTC day is rejected with 429 and that count in the body; one
\* that found fewer such items is not rejected by the quota check, however many
\* items of the same user carry another date.
C1_QuotaThreshold ==
    \A i \in Invocations :
        Done(i) /\ ReadQuota(i) =>
            /\ CountSeen(i) = 1000 =>
                  /\ QuotaRejected(i)
                  /\ inv[i].response.body.json.current_usage = CountSeen(i)
            /\ CountSeen(i) < 1000 => ~QuotaRejected(i)

\* A caller with exactly the ceiling today was rejected with the count 1000,
\* in a table that also holds items of the caller dated another day.
C1_Witness ==
    \E i \in Invocations :
        /\ Done(i) /\ ReadQuota(i)
        /\ CountSeen(i) = 1000
        /\ RecordsOff(TableBefore(i), inv[i].user_id, inv[i].scan.day) >= 1000
        /\ QuotaRejected(i)
        /\ inv[i].response.body.json.current_usage = 1000

\* A caller with the ceiling reached yesterday and one short of it today was
\* served and the call recorded.
C1_AllowedBelowCeiling ==
    \E i \in Invocations :
        /\ Done(i) /\ ReadQuota(i)
        /\ CountSeen(i) = 999
        /\ RecordsOff(TableBefore(i), inv[i].user_id, inv[i].scan.day) >= 1000
        /\ Status(i) = 200
        /\ inv[i].written # <<>>

---------------------------------------------------------------------------
(* C2 *)

\* C2: provider routing.  A request that passes validation and quota is handed
\* to the adapter of the provider the supported-model table gives for its model
\* (the default model when the body names none), and only that provider is ever
\* POSTed to: exactly once when the adapter's key is configured.
C2_ProviderRouting ==
    \A i \in Invocations :
        LET e == inv[i].event
            provider == SUPPORTED_MODELS[RequestedModel(e)]
            key == IF provider = "gemini" THEN GEMINI_API_KEY ELSE CLAUDE_API_KEY
        IN  /\ inv[i].pc \in {"called", "done"}
            /\ EntersProxy(e) /\ BodyIsObject(e) /\ ModelSupported(e)
            /\ ~(Done(i) /\ QuotaRejected(i))
            => /\ inv[i].adapter = provider
               /\ \A k \in 1..Len(inv[i].posts) : inv[i].posts[k] = provider
               /\ Done(i) => inv[i].posts = IF key THEN <<provider>> ELSE <<>>

\* A request naming the Claude model on the analyze-chapter endpoint reached Claude.
C2_Witness ==
    \E i \in Invocations :
        /\ Done(i)
        /\ RequestedModel(inv[i].event) = "claude-3-5-sonnet-20241022"
        /\ EndpointName(inv[i].event) = "analyze-chapter"
        /\ inv[i].posts = <<"claude">>
        /\ Status(i) = 200

---------------------------------------------------------------------------
(* C3 *)

---------------------------------------------------------------------------
(* C4 *)

---------------------------------------------------------------------------
(* C5 *)

\* A request that enters handle_ai_proxy with a JSON object naming a model the
\* supported-model table does not hold.
UnknownModelRequest(i) ==
    /\ Done(i)
    /\ EntersProxy(inv[i].event)
    /\ BodyIsObject(inv[i].event)
    /\ ~ModelSupported(inv[i].event)

---------------------------------------------------------------------------
(* C6 *)

\* The key of the provider serving the event's model is configured.
ProviderKeyConfigured(e) ==
    IF SUPPORTED_MODELS[RequestedModel(e)] = "gemini" THEN GEMINI_API_KEY ELSE CLAUDE_API_KEY

\* A request that passes the key, JSON, endpoint, model and quota checks, whose
\* provider is configured, and that carries no 'contents' field.
NoContentsRequest(i) ==
    /\ Done(i)
    /\ EntersProxy(inv[i].event)
    /\ BodyIsObject(inv[i].event)
    /\ ModelSupported(inv[i].event)
    /\ ProviderKeyConfigured(inv[i].event)
    /\ ~QuotaRejected(i)
    /\ "contents" \notin DOMAIN RequestFields(inv[i].event)

\* C6: on analyze-chapter a body without 'contents' is answered 400 "Missing
\* required field: contents", with no upstream call and no usage record.
C6_AsClaimed ==
    \A i \in Invocations :
        NoContentsRequest(i) /\ EndpointName(inv[i].event) = "analyze-chapter" =>
            /\ Status(i) = 400
            /\ inv[i].response.body = ErrorBody(<<"Missing required field: contents">>)
            /\ inv[i].posts = <<>>
            /\ inv[i].puts = 0

---------------------------------------------------------------------------
(* C7 *)

\* C7: OPTIONS short-circuit.  Every OPTIONS event is answered 200 with the
\* empty body, whatever its path, body, the configured keys and the quota, and
\* reads no store, writes no store and calls no provider.
C7_OptionsShortCircuit ==
    \A i \in Invocations :
        inv[i].pc # "idle" /\ IsOptions(inv[i].event) =>
            /\ Done(i)
            /\ Status(i) = 200
            /\ inv[i].response.body = [raw |-> ""]
            /\ NoIO(i)
            /\ TableBefore(i) = usage_table

\* An OPTIONS event with malformed JSON, no path parameters, no configured key
\* and an exhausted quota was answered.
C7_Witness ==
    \E i \in Invocations :
        /\ Done(i) /\ IsOptions(inv[i].event)
        /\ MalformedJson(inv[i].event)
        /\ inv[i].event.pathParameters = Null
        /\ ~KeysConfigured
        /\ RecordsOn(usage_table, "anonymous", today) >= 1000
        /\ Status(i) = 200

---------------------------------------------------------------------------
(* C8 *)

\* The Gemini upstream answered with a JSON body.
GeminiAnswered(i) ==
    /\ Done(i)
    /\ inv[i].adapter = "gemini"
    /\ inv[i].up.kind = "response"
    /\ inv[i].up.json_error = "none"

\* The answer is HTTP 200 and its first candidate finished with MAX_TOKENS.
Truncated(up) ==
    /\ up.status_code = 200
    /\ "candidates" \in DOMAIN up.body
    /\ up.body.candidates # <<>>
    /\ "finishReason" \in DOMAIN up.body.candidates[1]
    /\ up.body.candidates[1].finishReason = "MAX_TOKENS"

\* C8: Gemini truncation remap.  A truncated answer is returned as 422 with an
\* error, never 200; every other answer is returned with the upstream's status
\* code and JSON body unchanged.
C8_AsClaimed ==
    \A i \in Invocations :
        GeminiAnswered(i) =>
            IF Truncated(inv[i].up)
            THEN /\ Status(i) = 422
                 /\ "error" \in DOMAIN inv[i].response.body.json
            ELSE /\ Status(i) = inv[i].up.status_code
                 /\ inv[i].response.body = [json |-> inv[i].up.body]

---------------------------------------------------------------------------
(* C9 *)

\* The upstream provider returned an HTTP response (a JSON body with, on the
\* Gemini path, a first candidate to look at when candidates are given).
UpstreamCompleted(i) ==
    /\ inv[i].up.kind = "response"
    /\ inv[i].up.json_error = "none"
    /\ ~(inv[i].adapter = "gemini" /\ "candidates" \in DOMAIN inv[i].up.body
         /\ inv[i].up.body.candidates = <<>>)

\* C9: every invocation whose upstream call completed puts exactly one
\* UsageRecord (stored when the table accepts it), the one answered 422 for
\* MAX_TOKENS included; an invocation without a completed call puts none.
C9_AsClaimed ==
    \A i \in Invocations :
        Done(i) =>
            IF UpstreamCompleted(i)
            THEN inv[i].puts = 1 /\ Len(inv[i].written) <= 1
            ELSE inv[i].up.kind \in {"none", "timeout", "connection_error"} =>
                    inv[i].puts = 0 /\ inv[i].written = <<>>

---------------------------------------------------------------------------
(* C10 *)

\* C10, as claimed: no UsageRecord is written for an invocation whose upstream
\* call returned a non-success status, timed out or failed to connect.
C10_AsClaimed ==
    \A i \in Invocations :
        /\ Done(i)
        /\ inv[i].posts # <<>>
        /\ (inv[i].up.kind # "response" \/ inv[i].up.status_code # 200)
        => inv[i].written = <<>>

\* C10, amended: a UsageRecord is written only after the upstream returned an
\* HTTP response with a JSON body, whatever its status: none is written when
\* the call timed out or failed to connect, but a response with a non-success
\* status (429, 500) and a JSON object body is recorded like a successful one,
\* under the caller's user_id, and so counts toward the caller's daily quota.
C10_RecordAfterResponse ==
    \A i \in Invocations :
        Done(i) =>
            /\ inv[i].up.kind \in {"none", "timeout", "connection_error"} =>
                  inv[i].puts = 0 /\ inv[i].written = <<>>
            /\ inv[i].written # <<>> =>
                  inv[i].up.kind = "response" /\ inv[i].up.json_error = "none"
            /\ /\ inv[i].up.kind = "response"
               /\ inv[i].up.json_error = "none"
               /\ inv[i].up.status_code # 200
               => /\ inv[i].puts = 1
                  /\ \A k \in 1..Len(inv[i].written) :
                        /\ inv[i].written[k].user_id = inv[i].user_id
                        /\ inv[i].written[k].date >= inv[i].scan.day
                        /\ inv[i].written[k] \in DOMAIN usage_table

\* An upstream 500 was passed on and a UsageRecord stored for it.
C10_Witness ==
    \E i \in Invocations :
        /\ Done(i)
        /\ inv[i].up.kind = "response"
        /\ inv[i].up.status_code = 500
        /\ Status(i) = 500
        /\ Len(inv[i].written) = 1
        /\ RecordsOn(usage_table, inv[i].user_id, today)
             = RecordsOn(TableBefore(i), inv[i].user_id, today) + 1

---------------------------------------------------------------------------
(* C11 *)

\* Invocations i and j are of the same caller and both read the quota store
\* successfully on the same day, each finding one item less than the ceiling.
BothReadBelowCeiling(i, j) ==
    /\ i # j
    /\ inv[i].scans = 1 /\ inv[i].scan.ok
    /\ inv[j].scans = 1 /\ inv[j].scan.ok
    /\ inv[i].user_id = inv[j].user_id
    /\ inv[i].scan.day = inv[j].scan.day
    /\ inv[i].scan.count = MAX_DAILY_REQUESTS - 1
    /\ inv[j].scan.count = MAX_DAILY_REQUESTS - 1

\* Both invocations stored their UsageRecord under the day they read.
BothRecorded(i, j) ==
    /\ Done(i) /\ Done(j)
    /\ Len(inv[i].written) = 1 /\ inv[i].written[1].date = inv[i].scan.day
    /\ Len(inv[j].written) = 1 /\ inv[j].written[1].date = inv[j].scan.day

\* C11: the quota race is possible.  Two invocations of one caller that both
\* read the quota store before either wrote, each finding ceiling-1 items of
\* the day, both pass the quota check: neither is rejected by it and each goes
\* on to its provider.  Once both have stored their UsageRecord under that
\* day, the day's count for the caller stands above MAX_DAILY_REQUESTS.
C11_QuotaRace ==
    \A i, j \in Invocations :
        BothReadBelowCeiling(i, j) =>
            /\ inv[i].pc \in {"called", "done"} /\ inv[j].pc \in {"called", "done"}
            /\ Done(i) => ~QuotaRejected(i) /\ Len(inv[i].posts) = 1
            /\ Done(j) => ~QuotaRejected(j) /\ Len(inv[j].posts) = 1
            /\ BothRecorded(i, j) =>
                  RecordsOn(usage_table, inv[i].user_id, inv[i].scan.day)
                     > MAX_DAILY_REQUESTS

\* The interleaving happened: both read ceiling-1, both were answered 200 by
\* their provider, both wrote, and the day's count is ceiling+1.
C11_Witness ==
    \E i, j \in Invocations :
        /\ BothReadBelowCeiling(i, j)
        /\ BothRecorded(i, j)
        /\ Status(i) = 200 /\ Status(j) = 200
        /\ RecordsOn(usage_table, inv[i].user_id, inv[i].scan.day)
              = MAX_DAILY_REQUESTS + 1

---------------------------------------------------------------------------
(* C12 *)

\* The quota check of invocation i ran and its read of the usage store failed.
QuotaReadFailed(i) == inv[i].scans = 1 /\ ~inv[i].scan.ok

\* C12: the quota read fails open.  When the scan of the usage store raises,
\* the check reports "allowed" with count 0: the invocation is not rejected by
\* the quota check whatever the store holds, and a request with an object
\* body, a supported model and a configured provider key goes on to its one
\* provider call.  An invocation answered without a provider call after a
\* failed read is answered for a reason of its own: 400 for an unsupported
\* model, 500 for a missing provider key or a body that is not an object.
C12_QuotaReadFailsOpen ==
    \A i \in Invocations :
        QuotaReadFailed(i) =>
            /\ inv[i].scan.count = 0
            /\ inv[i].pc \in {"called", "done"}
            /\ Done(i) => ~QuotaRejected(i) /\ (Status(i) = 429 => Len(inv[i].posts) = 1)
            /\ /\ BodyIsObject(inv[i].event)
               /\ ModelSupported(inv[i].event)
               /\ ProviderKeyConfigured(inv[i].event)
               => /\ inv[i].pc = "called" \/ Len(inv[i].posts) = 1
                  /\ inv[i].adapter = SUPPORTED_MODELS[RequestedModel(inv[i].event)]
            /\ Done(i) /\ inv[i].posts = <<>> =>
                  \/ Status(i) = 400 /\ ~ModelSupported(inv[i].event)
                  \/ Status(i) = 500 /\ ~BodyIsObject(inv[i].event)
                  \/ Status(i) = 500 /\ ModelSupported(inv[i].event)
                        /\ ~ProviderKeyConfigured(inv[i].event)

\* The read failed while the store held the ceiling of items for the caller
\* today; the request went to its provider and was answered 200.
C12_Witness ==
    \E i \in Invocations :
        /\ QuotaReadFailed(i)
        /\ Done(i)
        /\ inv[i].scan.day = today
        /\ RecordsOn(TableBefore(i), inv[i].user_id, today) = MAX_DAILY_REQUESTS
        /\ Len(inv[i].posts) = 1
        /\ Status(i) = 200

---------------------------------------------------------------------------
(* C13 *)

\* What the adapter of invocation i returns, and the table it leaves, when it
\* is run again on the outcome i received with put_item succeeding (put_ok) or
\* raising.
Replay(i, put_ok) ==
    LET st == [inv[i] EXCEPT !.pc = "called", !.puts = 0, !.written = <<>>,
                             !.response = Idle.response]
    IN  IF inv[i].adapter = "gemini"
        THEN handle_gemini_request_end(st, inv[i].up, put_ok)
        ELSE handle_claude_request_end(st, inv[i].up, put_ok)

\* Invocation i called track_usage and its put_item raised.
WriteFailed(i) == Done(i) /\ inv[i].puts = 1 /\ inv[i].written = <<>>

\* C13: a failure of the usage write is swallowed.  Whenever an adapter called
\* track_usage, the status code and body it returned are those it returns on
\* the same upstream answer when put_item succeeds and those it returns when
\* put_item raises; a failed write leaves the store as it was found, a
\* successful one adds exactly the one record.
C13_WriteFailureSwallowed ==
    \A i \in Invocations :
        Done(i) /\ inv[i].puts = 1 =>
            /\ completed(inv[i].up)
            /\ inv[i].response = Replay(i, TRUE).st.response
            /\ inv[i].response = Replay(i, FALSE).st.response
            /\ Status(i) = inv[i].up.status_code
            /\ Replay(i, FALSE).st.written = <<>>
            /\ Len(Replay(i, TRUE).st.written) = 1
            /\ WriteFailed(i) => usage_table \in SeedTables
            /\ ~WriteFailed(i) =>
                  /\ Len(inv[i].written) = 1
                  /\ usage_table \notin SeedTables
                  /\ TableBefore(i) \in SeedTables

\* The provider answered 200 with a candidate, the write failed, and the caller
\* still got the 200 with the provider's body while the store is unchanged.
C13_Witness ==
    \E i \in Invocations :
        /\ WriteFailed(i)
        /\ Status(i) = 200
        /\ inv[i].up.status_code = 200
        /\ "candidates" \in DOMAIN inv[i].response.body.json
        /\ inv[i].response.body.json.candidates # <<>>
        /\ usage_table \in SeedTables

---------------------------------------------------------------------------
(* C14 *)

\* The provider invocation i called, as the error messages name it.
ProviderCalled(i) == IF inv[i].posts[1] = "gemini" THEN "Gemini" ELSE "Claude"

\* The call of invocation i ended in an exception that is neither a Timeout nor
\* another RequestException: response.json() raised a plain ValueError, or
\* candidates[0] was taken of an empty list.
OtherException(i) ==
    \/ inv[i].up.kind = "response" /\ inv[i].up.json_error = "ValueError"
    \/ /\ completed(inv[i].up)
       /\ inv[i].adapter = "gemini"
       /\ inv[i].up.status_code = 200
       /\ "candidates" \in DOMAIN inv[i].up.body
       /\ inv[i].up.body.candidates = <<>>

---------------------------------------------------------------------------
(* C15 *)

\* The fixed messages of the 500 responses the proxy writes itself.
GenericMessages ==
    { <<"Internal server error">>,
      <<"Failed to generate content">>,
      <<"No API keys configured on server">>,
      <<"Gemini API key not configured">>,
      <<"Claude API key not configured">> }

\* The 500 of invocation i is the proxy's own, not a provider's 500 passed on.
OwnServerError(i) ==
    /\ Done(i)
    /\ Status(i) = 500
    /\ ~completed(inv[i].up) \/ inv[i].up.status_code # 500

\* C15, as claimed: no internal exception text reaches the caller.  The body of
\* every 500 the proxy writes itself is {error: <fixed generic message>} and
\* nothing else; it carries no text of the raised exception.
C15_AsClaimed ==
    \A i \in Invocations :
        OwnServerError(i) =>
            /\ DOMAIN inv[i].response.body.json = {"error"}
            /\ inv[i].response.body.json.error \in GenericMessages

\* What holds instead: the only bodies carrying more than the fixed message are
\* those of the outer except clause of lambda_handler.
C15_LeakOnlyFromOuterExcept ==
    \A i \in Invocations :
        OwnServerError(i) /\ DOMAIN inv[i].response.body.json # {"error"} =>
            /\ inv[i].response.body.json.error = <<"Internal server error">>
            /\ DOMAIN inv[i].response.body.json = {"error", "details"}
            /\ ~NamesEndpoint(inv[i].event) \/ ~BodyIsObject(inv[i].event)

---------------------------------------------------------------------------
(* C16 *)

\* Invocation i was answered by a validation error, a configuration error, a
\* quota rejection or the OPTIONS short-circuit.
Rejected(i) ==
    /\ Done(i)
    /\ \/ IsOptions(inv[i].event)
       \/ ~KeysConfigured
       \/ MalformedJson(inv[i].event)
       \/ ~KnownEndpoint(inv[i].event)
       \/ ~BodyIsObject(inv[i].event)
       \/ ~ModelSupported(inv[i].event)
       \/ ~ProviderKeyConfigured(inv[i].event)
       \/ QuotaRejected(i)
       \/ Status(i) \in {400, 404}

\* C16: no retries and no call on rejection.  Every invocation makes at most
\* one outbound call; it makes none when it is answered by a validation error
\* (404, 400), a configuration error (500), a quota rejection (429) or the
\* OPTIONS short-circuit; and a timeout or connection failure of the one call
\* is what the caller is told, with no second call.
C16_AtMostOneCall ==
    \A i \in Invocations :
        /\ Len(inv[i].posts) <= 1
        /\ inv[i].pc # "done" => inv[i].posts = <<>>
        /\ Done(i) => (inv[i].posts = <<>> <=> inv[i].up.kind = "none")
        /\ Rejected(i) => inv[i].posts = <<>>
        /\ Done(i) /\ inv[i].up.kind = "timeout" =>
              Len(inv[i].posts) = 1 /\ Status(i) = 504
        /\ Done(i) /\ inv[i].up.kind = "connection_error" =>
              Len(inv[i].posts) = 1 /\ Status(i) = 502

\* A call that timed out was made once and answered 504.
C16_Witness ==
    \E i \in Invocations :
        /\ Done(i)
        /\ inv[i].up.kind = "timeout"
        /\ Len(inv[i].posts) = 1
        /\ Status(i) = 504

---------------------------------------------------------------------------
(* C17, C18 *)

\* Claude answered invocation i with a JSON body, which was translated.
ClaudeAnswered(i) ==
    /\ Done(i)
    /\ inv[i].adapter = "claude"
    /\ completed(inv[i].up)

\* The Claude response has no content block: 'content' is absent or empty.
EmptyContent(claude_response) ==
    "content" \notin DOMAIN claude_response \/ claude_response.content = <<>>

\* The candidate of the canonical response returned to the caller.
Candidate(i) == inv[i].response.body.json.candidates[1]

\* C17, as claimed: a Claude response whose content is absent or an empty list
\* is translated, without raising, to a canonical response with finishReason
\* "ERROR" and text "No content generated".
C17_AsClaimed ==
    \A i \in Invocations :
        ClaudeAnswered(i) /\ EmptyContent(inv[i].up.body) =>
            /\ Status(i) = inv[i].up.status_code
            /\ Candidate(i).finishReason = "ERROR"
            /\ Candidate(i).content.parts[1].text = "No content generated"

\* What the translation does instead: the text is the empty string and the
\* finish reason follows stop_reason as for any other response; it never
\* raises.
C17_EmptyText ==
    \A i \in Invocations :
        ClaudeAnswered(i) /\ EmptyContent(inv[i].up.body) =>
            /\ Status(i) = inv[i].up.status_code
            /\ Candidate(i).finishReason \in {"STOP", "MAX_TOKENS"}
            /\ Candidate(i).content.parts[1].text = ""

\* C18: the Claude stop-reason mapping.  For a Claude response with a content
\* block, the canonical finishReason is "MAX_TOKENS" exactly when stop_reason
\* is present and equals "max_tokens"; it is "STOP" for every other value of
\* stop_reason and when stop_reason is absent.
C18_StopReasonMapping ==
    \A i \in Invocations :
        ClaudeAnswered(i) /\ ~EmptyContent(inv[i].up.body) =>
            /\ Len(inv[i].response.body.json.candidates) = 1
            /\ Candidate(i).finishReason \in {"MAX_TOKENS", "STOP"}
            /\ Candidate(i).finishReason = "MAX_TOKENS" <=>
                  /\ "stop_reason" \in DOMAIN inv[i].up.body
                  /\ inv[i].up.body.stop_reason = "max_tokens"

\* Claude stopped at its token limit and the caller was told MAX_TOKENS, with
\* the text produced so far.
C18_Witness ==
    \E i \in Invocations :
        /\ ClaudeAnswered(i)
        /\ ~EmptyContent(inv[i].up.body)
        /\ inv[i].up.status_code = 200
        /\ "stop_reason" \in DOMAIN inv[i].up.body
        /\ inv[i].up.body.stop_reason = "max_tokens"
        /\ Candidate(i).finishReason = "MAX_TOKENS"
        /\ Candidate(i).content.parts[1].text = "a"

---------------------------------------------------------------------------
(* C19 *)

\* The number a usage field of an upstream body stands for: its value when the
\* usage object and the field are both there, 0 otherwise.
UsageField(response_body, usage_key, field) ==
    IF usage_key \in DOMAIN response_body /\ field \in DOMAIN response_body[usage_key]
    THEN response_body[usage_key][field]
    ELSE 0

---------------------------------------------------------------------------
(* C20 *)

\* The 'contents' the event of invocation i carries.
SentContents(i) == dict_get(RequestFields(inv[i].event), "contents", <<>>)

\* The positions <<content, part>> of the text parts of a contents list.
TextPositions(contents) ==
    {pos \in UNION {{<<c, q>> : q \in 1..Len(dict_get(contents[c], "parts", <<>>))}
                        : c \in 1..Len(contents)}
        : "text" \in DOMAIN contents[pos[1]].parts[pos[2]]}

\* The place of a text part among the text parts, in reading order.
Rank(contents, pos) ==
    Cardinality({q \in TextPositions(contents) :
                    q[1] < pos[1] \/ (q[1] = pos[1] /\ q[2] <= pos[2])})

\* The request of invocation i went, or is about to go, to Claude.
ClaudeCalled(i) == inv[i].pc \in {"called", "done"} /\ inv[i].adapter = "claude"

\* The upstream of invocation i sent back the messages it was given.
Echoed(i) == ClaudeAnswered(i) /\ inv[i].up.body = EchoBody(inv[i].request)

---------------------------------------------------------------------------
(* C21 *)

\* The model ids an error message of invocation i lists.
ModelsListed(i) ==
    LET list == inv[i].response.body.json.error[4]
    IN  {list[k] : k \in 1..Len(list)}

---------------------------------------------------------------------------
(* C22 *)

\* Invocation i returned a generation response: the provider's answer of
\* status 200, passed on or translated.
GenerationResponse(i) ==
    /\ Done(i)
    /\ completed(inv[i].up)
    /\ inv[i].up.status_code = 200
    /\ Status(i) = 200

\* C22, as claimed: every generation response returned to the caller,
\* whichever provider served it and whatever the provider returned, holds
\* exactly one entry in 'candidates'.
C22_AsClaimed ==
    \A i \in Invocations :
        GenerationResponse(i) =>
            /\ "candidates" \in DOMAIN inv[i].response.body.json
            /\ Len(inv[i].response.body.json.candidates) = 1

\* What holds instead: the translation of a Claude response always builds one
\* candidate; a Gemini response is passed on as it came.
C22_ClaudeOneCandidate ==
    \A i \in Invocations :
        /\ ClaudeAnswered(i) =>
              /\ "candidates" \in DOMAIN inv[i].response.body.json
              /\ Len(inv[i].response.body.json.candidates) = 1
        /\ GenerationResponse(i) /\ inv[i].adapter = "gemini" =>
              inv[i].response.body = json_dumps(inv[i].up.body)

---------------------------------------------------------------------------
(* C23 *)

\* The event carries an Authorization header of the bearer scheme.
BearerPresent(e) ==
    /\ e.headers # Null
    /\ "Authorization" \in DOMAIN e.headers
    /\ e.headers.Authorization[1] = "Bearer "

\* The quota bucket the spec gives the event: the placeholder identity with a
\* bearer token, the anonymous sentinel without.
Bucket(e) == IF BearerPresent(e) THEN "authenticated_user" ELSE "anonymous"

\* C23: the caller identity ignores the token's content.  The user_id of an
\* invocation is the placeholder identity when a bearer token is present and
\* the anonymous sentinel otherwise, whatever the token; the count the quota
\* check reads is that of this bucket, the decision follows from that count
\* alone, and the record stored carries this user_id.  Requests that differ
\* only in the token so get the same user_id, bucket and decision.
C23_IdentityIgnoresToken ==
    \A i \in Invocations :
        inv[i].scans = 1 =>
            /\ inv[i].user_id = Bucket(inv[i].event)
            /\ BearerPresent(inv[i].event) =>
                  \A t \in Tokens :
                      extract_user_from_token([Authorization |-> <<"Bearer ", t>>])
                          = inv[i].user_id
            /\ inv[i].scan.ok =>
                  inv[i].scan.count
                      = RecordsOn(TableBefore(i), Bucket(inv[i].event), inv[i].scan.day)
            /\ Done(i) =>
                  (QuotaRejected(i) <=>
                      /\ inv[i].scan.ok
                      /\ RecordsOn(TableBefore(i), Bucket(inv[i].event), inv[i].scan.day)
                            >= MAX_DAILY_REQUESTS)
            /\ \A k \in 1..Len(inv[i].written) :
                  inv[i].written[k].user_id = Bucket(inv[i].event)

\* A request with the token "t2" was rejected because the bucket of the
\* placeholder identity was full, while the anonymous bucket was not.
C23_Witness ==
    \E i \in Invocations :
        /\ Done(i)
        /\ BearerPresent(inv[i].event)
        /\ inv[i].event.headers.Authorization[2] = "t2"
        /\ inv[i].user_id = "authenticated_user"
        /\ QuotaRejected(i)
        /\ RecordsOn(usage_table, "anonymous", inv[i].scan.day) < MAX_DAILY_REQUESTS

---------------------------------------------------------------------------
(***************************************************************************)
(* The academic records handler, academic_records_lambda_function.py.      *)
(*                                                                         *)
(* The strings the record id is built from are sequences of characters, so *)
(* that formatting, upper() and begins_with are computed.  A JSON scalar   *)
(* that may be a number or a string is [type, v].  Timestamps are "now".   *)
(***************************************************************************)

VALID_STATUSES == {"not_started", "in_progress", "completed", "on_hold", "cancelled"}

valid_status_list == <<"not_started", "in_progress", "completed", "on_hold", "cancelled">>

\* str(x), and {x} in an f-string, of a JSON scalar
py_str(x) == IF x.type = "str" THEN x.v ELSE <<ToString(x.v)>>

upper_char(ch) ==
    CASE ch = "a" -> "A"
      [] ch = "b" -> "B"
      [] OTHER -> ch

\* s.upper()
str_upper(s) == [k \in 1..Len(s) |-> upper_char(s[k])]

\* record_id.begins_with(prefix)
begins_with(s, prefix) == Len(s) >= Len(prefix) /\ SubSeq(s, 1, Len(prefix)) = prefix

\* Mutant of generate_record_id: section and grade change places.
generate_record_id_swapped(school_id, academic_year, grade, section, subject_id) ==
    school_id \o <<"#">> \o academic_year \o <<"#">> \o section \o <<"#">> \o grade
        \o <<"#">> \o subject_id

\* f"{school_id}#{academic_year}#{grade}#{section}#{subject_id}"
generate_record_id(school_id, academic_year, grade, section, subject_id) ==
    school_id \o <<"#">> \o academic_year \o <<"#">> \o grade \o <<"#">> \o section
        \o <<"#">> \o subject_id

\* d with d[k] = v
dict_set(d, k, v) == [x \in DOMAIN d \cup {k} |-> IF x = k THEN v ELSE d[x]]

\* table.put_item / update_item: the item under its key
table_put(table, key, item) ==
    [x \in DOMAIN table \cup {key} |-> IF x = key THEN item ELSE table[x]]

\* table.delete_item
table_delete(table, key) == [x \in DOMAIN table \ {key} |-> table[x]]

\* What a call yields: its response and the table it leaves.
record_result(statusCode, body, table) ==
    [response |-> [statusCode |-> statusCode, body |-> json_dumps(body)],
     record_id |-> <<>>, table |-> table]

\* except Exception as e: 500 {'error': str(e)}
record_error(exception_text) ==
    record_result(500, [error |-> <<exception_text>>], academic_records)

invalid_status ==
    record_result(400, [error |-> <<"Invalid status. Must be one of: ", valid_status_list>>],
                  academic_records)

\* The keys create_academic_record reads with data[...]
required_fields ==
    {"school_id", "academic_year", "grade", "section", "subject_id", "topic_id"}

\* if data.get('teacher_id'): record['teacher_id'] = data['teacher_id']
with_teacher(record, data, field) ==
    IF field \in DOMAIN data /\ data[field] # ""
    THEN dict_set(record, field, data[field])
    ELSE record

\* Mutant of create_record_status: the status is stored as it came.
create_record_status_unchecked(data) ==
    [valid |-> TRUE, status |-> dict_get(data, "status", "not_started")]

\* status = data.get('status', 'not_started'); if status not in VALID_STATUSES
create_record_status(data) ==
    LET status == dict_get(data, "status", "not_started")
    IN  [valid |-> status \in VALID_STATUSES, status |-> status]

create_academic_record(data, put_ok) ==
    IF \E f \in required_fields \ {"topic_id"} : f \notin DOMAIN data
    THEN record_error("KeyError")
    ELSE LET record_id == generate_record_id(data.school_id, data.academic_year,
                                             py_str(data.grade), data.section,
                                             data.subject_id)
             checked == create_record_status(data)
         IN  IF ~checked.valid THEN [invalid_status EXCEPT !.record_id = record_id]
             ELSE IF "topic_id" \notin DOMAIN data
             THEN [record_error("KeyError") EXCEPT !.record_id = record_id]
             ELSE LET record ==
                          [record_id |-> record_id,
                           topic_id |-> data.topic_id,
                           school_id |-> data.school_id,
                           academic_year |-> data.academic_year,
                           grade |-> py_str(data.grade),
                           section |-> str_upper(data.section),
                           subject_id |-> data.subject_id,
                           subject_name |-> dict_get(data, "subject_name", ""),
                           topic_name |-> dict_get(data, "topic_name", ""),
                           status |-> checked.status,
                           notes |-> dict_get(data, "notes", ""),
                           created_at |-> "now",
                           updated_at |-> "now"]
                      item == with_teacher(with_teacher(record, data, "teacher_id"),
                                           data, "teacher_name")
                  IN  IF ~put_ok
                      THEN [record_error("ClientError") EXCEPT !.record_id = record_id]
                      ELSE [record_result(201, item,
                                table_put(academic_records, <<record_id, data.topic_id>>, item))
                              EXCEPT !.record_id = record_id]

updateable_fields ==
    {"status", "teacher_id", "teacher_name", "subject_name", "topic_name", "notes"}

\* table.update_item(Key=..., UpdateExpression="SET ..."): DynamoDB creates the
\* item when the key is absent, as no ConditionExpression is given.
update_item(table, key, values) ==
    LET old == IF key \in DOMAIN table
               THEN table[key]
               ELSE [record_id |-> key[1], topic_id |-> key[2]]
    IN  [x \in DOMAIN old \cup DOMAIN values |->
            IF x \in DOMAIN values THEN values[x] ELSE old[x]]

update_academic_record(record_id, topic_id, updates, update_ok) ==
    IF "status" \in DOMAIN updates /\ updates.status \notin VALID_STATUSES
    THEN invalid_status
    ELSE LET fields == DOMAIN updates \cap updateable_fields
             expr_values == [x \in fields \cup {"updated_at"} |->
                                IF x = "updated_at" THEN "now" ELSE updates[x]]
             attributes == update_item(academic_records, <<record_id, topic_id>>, expr_values)
         IN  IF ~update_ok THEN record_error("ClientError")
             ELSE record_result(200, attributes,
                      table_put(academic_records, <<record_id, topic_id>>, attributes))

delete_academic_record(record_id, topic_id, delete_ok) ==
    IF ~delete_ok THEN record_error("ClientError")
    ELSE record_result(200, [message |-> <<"Record deleted successfully">>],
                       table_delete(academic_records, <<record_id, topic_id>>))

\* The items of school_id-index under a school whose record_id begins with the
\* prefix; an item without school_id is not in the index.
list_records_by_class(school_id, academic_year, grade, section, query_ok) ==
    LET record_id_prefix == school_id \o <<"#">> \o academic_year \o <<"#">> \o grade
                               \o <<"#">> \o section \o <<"#">>
        Items == {academic_records[k] : k \in
                    {x \in DOMAIN academic_records :
                        /\ "school_id" \in DOMAIN academic_records[x]
                        /\ academic_records[x].school_id = school_id
                        /\ begins_with(academic_records[x].record_id, record_id_prefix)}}
    IN  IF ~query_ok THEN record_error("ClientError")
        ELSE record_result(200, Items, academic_records)

(* The calls made to the handler. *)

SchoolIds == {<<"s", "1">>, <<"s", "#">>}

AcademicYears == {<<"2", "4", "-", "2", "5">>}

Grades == {[type |-> "str", v |-> <<"6">>], [type |-> "int", v |-> 6]}

Sections == {<<"a">>, <<"B">>}

SubjectIds == {<<"s", "c", "i">>}

StatusValues == {"in_progress", "invalid_status"}

ClassFields ==
    [school_id : SchoolIds, academic_year : AcademicYears, grade : Grades,
     section : Sections, subject_id : SubjectIds, topic_id : {"t1"}]

CreateData ==
    ClassFields
    \cup {dict_set(d, "status", st) : d \in ClassFields, st \in StatusValues}
    \cup {dict_set(d, "teacher_id", t) : d \in ClassFields, t \in {"", "teacher-1"}}
    \cup {[school_id |-> <<"s", "1">>, status |-> "in_progress"]}
    \cup {[x \in required_fields \ {"topic_id"} |-> d[x]] : d \in ClassFields}

Updates ==
    {EmptyDict, [notes |-> "n"], [status |-> "completed"], [status |-> "invalid_status"],
     [status |-> "on_hold", notes |-> "n"]}

\* A key no create call of the run produces.
NeverCreated == <<generate_record_id(<<"x">>, <<"y">>, <<"6">>, <<"A">>, <<"z">>), "t1">>

RecordKeys == DOMAIN academic_records \cup {NeverCreated}

called(op, args, result) ==
    /\ ar' = [calls |-> ar.calls + 1, op |-> op, args |-> args,
              record_id |-> result.record_id, response |-> result.response]
    /\ academic_records' = result.table
    /\ UNCHANGED <<proxy_vars, topics_vars, users_vars>>

CreateRecord ==
    /\ ar.calls < MaxCalls
    /\ \E data \in CreateData, put_ok \in BOOLEAN :
          called("create", [data |-> data], create_academic_record(data, put_ok))

UpdateRecord ==
    /\ ar.calls < MaxCalls
    /\ \E key \in RecordKeys, updates \in Updates, update_ok \in BOOLEAN :
          called("update", [key |-> key, updates |-> updates],
                 update_academic_record(key[1], key[2], updates, update_ok))

DeleteRecord ==
    /\ ar.calls < MaxCalls
    /\ \E key \in RecordKeys, delete_ok \in BOOLEAN :
          called("delete", [key |-> key], delete_academic_record(key[1], key[2], delete_ok))

ListRecordsByClass ==
    /\ ar.calls < MaxCalls
    /\ \E school_id \in SchoolIds, academic_year \in AcademicYears,
          grade \in {py_str(g) : g \in Grades},
          section \in Sections \cup {str_upper(x) : x \in Sections},
          query_ok \in BOOLEAN :
          called("list", [school_id |-> school_id, academic_year |-> academic_year,
                          grade |-> grade, section |-> section],
                 list_records_by_class(school_id, academic_year, grade, section, query_ok))

\* The AI proxy at rest, its usage table empty.
ProxyIdle ==
    /\ usage_table \in {t \in SeedTables : DOMAIN t = {}}
    /\ today = 1
    /\ GEMINI_API_KEY = TRUE
    /\ CLAUDE_API_KEY = TRUE
    /\ inv = [i \in {1} |-> Idle]
    /\ served = 0

InitRecords == ProxyIdle /\ RecordsIdle /\ TopicsIdle /\ UsersIdle

NextRecords ==
    \/ CreateRecord
    \/ UpdateRecord
    \/ DeleteRecord
    \/ ListRecordsByClass

SpecRecords == InitRecords /\ [][NextRecords]_vars

---------------------------------------------------------------------------
(* C24 *)

\* The last call was create_academic_record with the five fields of the id.
CreateCalled ==
    /\ ar.op = "create"
    /\ required_fields \ {"topic_id"} \subseteq DOMAIN ar.args.data

\* The five components the call was given, as they print.
Components ==
    <<ar.args.data.school_id, ar.args.data.academic_year, py_str(ar.args.data.grade),
      ar.args.data.section, ar.args.data.subject_id>>

RECURSIVE LengthBefore(_, _)
\* The length of the first k components, each followed by one separator.
LengthBefore(cs, k) ==
    IF k = 0 THEN 0 ELSE LengthBefore(cs, k - 1) + Len(cs[k]) + 1

\* C24: generate_record_id returns the five components school_id,
\* academic_year, grade, section, subject_id in that order joined by '#',
\* with nothing added or changed: each component stands unchanged at its
\* place, a '#' follows each but the last, and nothing follows the last.
C24_RecordIdFormat ==
    CreateCalled =>
        /\ Len(ar.record_id) = LengthBefore(Components, 5) - 1
        /\ \A k \in 1..5 :
              /\ SubSeq(ar.record_id, LengthBefore(Components, k - 1) + 1,
                        LengthBefore(Components, k) - 1) = Components[k]
              /\ k < 5 => ar.record_id[LengthBefore(Components, k)] = "#"

\* The id of school "s#", year "24-25", grade 6 (a number), section "a" and
\* subject "sci" was generated.
C24_Witness ==
    /\ CreateCalled
    /\ ar.args.data.school_id = <<"s", "#">>
    /\ ar.args.data.grade = [type |-> "int", v |-> 6]
    /\ ar.args.data.section = <<"a">>
    /\ ar.record_id = <<"s", "#", "#", "2", "4", "-", "2", "5", "#", "6", "#", "a",
                        "#", "s", "c", "i">>

---------------------------------------------------------------------------
(* C25 *)

\* C25: the sequential quota bound.  When the invocations run one after
\* another and neither the scan nor the put_item of the usage table fails, the
\* number of UsageRecords of a user_id dated one UTC day never exceeds
\* MAX_DAILY_REQUESTS, and an invocation that stored a record had read a count
\* below the ceiling.
C25_SequentialQuotaBound ==
    /\ \A u \in Users, d \in 0..MaxDay :
          RecordsOn(usage_table, u, d) <= MAX_DAILY_REQUESTS
    /\ \A i \in Invocations :
          inv[i].written # <<>> =>
              inv[i].scan.ok /\ inv[i].scan.count < MAX_DAILY_REQUESTS

\* After an earlier invocation of the run the caller stands at the ceiling, and
\* the next invocation was rejected by the quota check.
C25_Witness ==
    \E i \in Invocations :
        /\ served >= 1
        /\ QuotaRejected(i)
        /\ inv[i].scan.count = MAX_DAILY_REQUESTS
        /\ RecordsOn(usage_table, inv[i].user_id, inv[i].scan.day) = MAX_DAILY_REQUESTS
        /\ RecordsOn(usage_table, "authenticated_user", inv[i].scan.day)
             + RecordsOn(usage_table, "anonymous", inv[i].scan.day)
             = MAX_DAILY_REQUESTS + MAX_DAILY_REQUESTS

---------------------------------------------------------------------------
(***************************************************************************)
(* The topics handler, lambda_function.py.  A call is a process that takes *)
(* one step per access to the topics table, so that calls interleave the   *)
(* way Lambda containers do.  A JSON value that should be a list is        *)
(* [list |-> <<...>>] when it is one and [scalar |-> x] when it is not.    *)
(***************************************************************************)

TopicCalls == DOMAIN tp

topic_required_fields == <<"name", "subject_id", "school_id", "class_id">>

\* The answer of a topics call.
topic_response(statusCode, body) == [statusCode |-> statusCode, body |-> json_dumps(body)]

topic_done(st, statusCode, body) ==
    [st EXCEPT !.pc = "done", !.response = topic_response(statusCode, body)]

\* except Exception as e: 500 {'error': str(e)}
topic_error(st, exception_text) == topic_done(st, 500, [error |-> <<exception_text>>])

\* A call that has started.
TopicCall(op, topic_id, data) ==
    [pc |-> "started", op |-> op, topic_id |-> topic_id, data |-> data,
     queries |-> <<>>, scans |-> <<>>, items |-> {}, values |-> EmptyDict,
     response |-> [statusCode |-> 0, body |-> EmptyString]]

\* links = data.get('documentLinks') or data.get('document_links'): the first
\* of the two that is there and truthy, else the second, else None.
truthy_links(v) == "scalar" \in DOMAIN v \/ v.list # <<>>

links_of(data) ==
    IF "documentLinks" \in DOMAIN data /\ truthy_links(data.documentLinks)
    THEN data.documentLinks
    ELSE dict_get(data, "document_links", [scalar |-> NoneStr])

\* validate_document_link, for links that are objects with string fields
validate_document_link(link) ==
    IF "url" \notin DOMAIN link THEN <<"Document link must have a URL">>
    ELSE IF link.url = "" THEN <<"Document link URL must be a non-empty string">>
    ELSE IF "name" \in DOMAIN link /\ link.name = ""
    THEN <<"If provided, document link name must be a non-empty string">>
    ELSE <<>>

\* The validation of document links in create_topic and update_topic: the
\* error message, or <<>> when there is nothing to object to.
validate_links(data) ==
    IF "documentLinks" \in DOMAIN data \/ "document_links" \in DOMAIN data
    THEN LET links == links_of(data)
         IN  IF "list" \notin DOMAIN links THEN <<"Document links must be an array">>
             ELSE LET bad == {k \in 1..Len(links.list) :
                                validate_document_link(links.list[k]) # <<>>}
                  IN  IF bad = {} THEN <<>>
                      ELSE validate_document_link(
                               links.list[CHOOSE k \in bad : \A j \in bad : k <= j])
    ELSE <<>>

\* The links as stored: objects {name, url} (the name is given in the model).
normalized_links(v) == IF "list" \in DOMAIN v THEN v.list ELSE <<>>

first_missing(data) ==
    CHOOSE k \in 1..Len(topic_required_fields) :
        /\ topic_required_fields[k] \notin DOMAIN data
        /\ \A j \in 1..(k - 1) : topic_required_fields[j] \in DOMAIN data

\* create_topic: the answer and the table it leaves; topic_id is the uuid4.
create_topic(st, topic_id, put_ok) ==
    LET topic_data == st.data
    IN  IF \E k \in 1..Len(topic_required_fields) : topic_required_fields[k] \notin DOMAIN topic_data
        THEN [st |-> topic_done(st, 400, [error |-> <<"Missing required field: ",
                         topic_required_fields[first_missing(topic_data)]>>]),
              table |-> topics_table]
        ELSE IF validate_links(topic_data) # <<>>
        THEN [st |-> topic_done(st, 400, [error |-> validate_links(topic_data)]),
              table |-> topics_table]
        ELSE LET item == [id |-> topic_id,
                          name |-> topic_data.name,
                          description |-> dict_get(topic_data, "description", ""),
                          document_links |-> normalized_links(links_of(topic_data)),
                          ai_content |->
                              IF dict_get(topic_data, "aiContent", EmptyDict) # EmptyDict
                              THEN topic_data.aiContent
                              ELSE dict_get(topic_data, "ai_content", EmptyDict),
                          subject_id |-> topic_data.subject_id,
                          school_id |-> topic_data.school_id,
                          class_id |-> topic_data.class_id,
                          created_at |-> "now",
                          updated_at |-> "now"]
             IN  IF ~put_ok
                 THEN [st |-> topic_error(st, "ClientError"), table |-> topics_table]
                 ELSE [st |-> topic_done([st EXCEPT !.topic_id = topic_id], 201, item),
                       table |-> table_put(topics_table, topic_id, item)]

\* The SET clauses of update_topic: attribute -> value.
expression_values(update_data) ==
    LET named == {f \in {"name", "description"} : f \in DOMAIN update_data}
        links == {f \in {"document_links"} :
                    "documentLinks" \in DOMAIN update_data \/ "document_links" \in DOMAIN update_data}
        ai == {f \in {"ai_content"} :
                    "aiContent" \in DOMAIN update_data \/ "ai_content" \in DOMAIN update_data}
    IN  [f \in named \cup links \cup ai \cup {"updated_at"} |->
            CASE f = "updated_at" -> "now"
              [] f = "document_links" ->
                    normalized_links(IF "documentLinks" \in DOMAIN update_data
                                     THEN update_data.documentLinks
                                     ELSE update_data.document_links)
              [] f = "ai_content" ->
                    IF "aiContent" \in DOMAIN update_data
                    THEN update_data.aiContent ELSE update_data.ai_content
              [] OTHER -> update_data[f]]

\* 'Item' in table.get_item(Key={'id': topic_id})
topic_exists(table, topic_id) == topic_id \in DOMAIN table

\* update_topic up to its update_item: get_item, the 404, the validation and
\* the update expression.
update_topic_begin(st, get_ok) ==
    IF ~get_ok THEN topic_error(st, "ClientError")
    ELSE IF ~topic_exists(topics_table, st.topic_id)
    THEN topic_done(st, 404, [error |-> <<"Topic not found">>])
    ELSE IF validate_links(st.data) # <<>>
    THEN topic_done(st, 400, [error |-> validate_links(st.data)])
    ELSE [st EXCEPT !.pc = "update_item", !.values = expression_values(st.data)]

\* table.update_item(Key={'id': topic_id}, UpdateExpression="SET ..."): with no
\* ConditionExpression DynamoDB creates the item when the key is absent.
topic_update_item(table, topic_id, values) ==
    LET old == IF topic_id \in DOMAIN table THEN table[topic_id] ELSE [id |-> topic_id]
    IN  [x \in DOMAIN old \cup DOMAIN values |->
            IF x \in DOMAIN values THEN values[x] ELSE old[x]]

update_topic_end(st, update_ok) ==
    IF ~update_ok
    THEN [st |-> topic_error(st, "ClientError"), table |-> topics_table]
    ELSE LET attributes == topic_update_item(topics_table, st.topic_id, st.values)
         IN  [st |-> topic_done(st, 200, attributes),
              table |-> table_put(topics_table, st.topic_id, attributes)]

\* delete_topic up to its delete_item
delete_topic_begin(st, get_ok) ==
    IF ~get_ok THEN topic_error(st, "ClientError")
    ELSE IF ~topic_exists(topics_table, st.topic_id)
    THEN topic_done(st, 404, [error |-> <<"Topic not found">>])
    ELSE [st EXCEPT !.pc = "delete_item"]

delete_topic_end(st, delete_ok) ==
    IF ~delete_ok
    THEN [st |-> topic_error(st, "ClientError"), table |-> topics_table]
    ELSE [st |-> topic_done(st, 200, [message |-> <<"Topic deleted successfully">>]),
          table |-> table_delete(topics_table, st.topic_id)]

(* get_topics_by_subject *)

\* The topics of a subject in the table.
subject_items(table, subject_id) ==
    {table[k] : k \in {x \in DOMAIN table :
                          "subject_id" \in DOMAIN table[x] /\ table[x].subject_id = subject_id}}

\* What a query of school-class-subject-index may do: raise, return the items
\* of the subject, or, the index being eventually consistent, return none yet.
QueryOutcomes(subject_id) ==
    {[kind |-> "raised", items |-> {}], [kind |-> "answered", items |-> {}]}
    \cup {[kind |-> "answered", items |-> subject_items(topics_table, subject_id)]}

\* What the fallback scan may do: raise or return the items of the subject.
ScanOutcomes(subject_id) ==
    {[kind |-> "raised", items |-> {}],
     [kind |-> "answered", items |-> subject_items(topics_table, subject_id)]}

\* Mutant of query_attempt: the loop does not stop at a non-empty answer.
query_attempt_no_break(st, outcome) ==
    LET items == IF outcome.kind = "answered" THEN outcome.items ELSE st.items
        st1 == [st EXCEPT !.queries = Append(@, outcome), !.items = items]
    IN  IF Len(st1.queries) < Len(<<100, 200, 300>>)
        THEN [st1 EXCEPT !.pc = "query"]
        ELSE IF items # {}
        THEN topic_done(st1, 200, items)
        ELSE [st1 EXCEPT !.pc = "scan"]

\* One pass of 'for attempt in range(3)' (the backoff is 100, 200, 300 ms), and
\* what follows the loop when it ends: the answer if there are items, the
\* fallback scan if not.
query_attempt(st, outcome) ==
    LET items == IF outcome.kind = "answered" THEN outcome.items ELSE st.items
        st1 == [st EXCEPT !.queries = Append(@, outcome), !.items = items]
    IN  IF items # {}
        THEN topic_done(st1, 200, items)
        ELSE IF Len(st1.queries) < Len(<<100, 200, 300>>)
        THEN [st1 EXCEPT !.pc = "query"]
        ELSE [st1 EXCEPT !.pc = "scan"]

\* The fallback scan and the return.
fallback_scan(st, outcome) ==
    LET st1 == [st EXCEPT !.scans = Append(@, outcome)]
    IN  IF outcome.kind = "raised"
        THEN topic_error(st1, "ClientError")
        ELSE topic_done([st1 EXCEPT !.items = outcome.items], 200, outcome.items)

(* The calls. *)

TopicIds == {"id1", "id2"}

Subjects == {"sub1"}

FullTopicData ==
    [name |-> "n1", subject_id |-> "sub1", school_id |-> "sch1", class_id |-> "c1"]

TopicData ==
    {FullTopicData,
     [name |-> "n1", subject_id |-> "sub1", school_id |-> "sch1"],
     dict_set(FullTopicData, "documentLinks", [list |-> <<[url |-> ""]>>])}

UpdateData ==
    {EmptyDict,
     [name |-> "n2"],
     [documentLinks |-> [list |-> <<>>]],
     [documentLinks |-> [list |-> <<[name |-> "doc", url |-> "u"]>>], description |-> "d"]}

\* The topic a run may start with.
SeedTopic ==
    [id |-> "id1", name |-> "n1", description |-> "", document_links |-> <<>>,
     ai_content |-> EmptyDict, subject_id |-> "sub1", school_id |-> "sch1",
     class_id |-> "c1", created_at |-> "now", updated_at |-> "now"]

SeedTopics == {<<>>, table_put(<<>>, "id1", SeedTopic)}

topics_step(p, result) ==
    /\ tp' = [tp EXCEPT ![p] = result.st]
    /\ topics_table' = result.table
    /\ UNCHANGED <<proxy_vars, records_vars, users_vars>>

reads(st) == [st |-> st, table |-> topics_table]

CreateTopic(p) ==
    /\ tp[p].pc = "idle"
    /\ \E topic_data \in TopicData, topic_id \in TopicIds \ DOMAIN topics_table,
          put_ok \in BOOLEAN :
          topics_step(p, create_topic(TopicCall("create", "", topic_data), topic_id, put_ok))

UpdateTopicBegin(p) ==
    /\ tp[p].pc = "idle"
    /\ \E topic_id \in TopicIds, update_data \in UpdateData, get_ok \in BOOLEAN :
          topics_step(p, reads(update_topic_begin(TopicCall("update", topic_id, update_data),
                                                  get_ok)))

UpdateTopicEnd(p) ==
    /\ tp[p].pc = "update_item"
    /\ \E update_ok \in BOOLEAN : topics_step(p, update_topic_end(tp[p], update_ok))

DeleteTopicBegin(p) ==
    /\ tp[p].pc = "idle"
    /\ \E topic_id \in TopicIds, get_ok \in BOOLEAN :
          topics_step(p, reads(delete_topic_begin(TopicCall("delete", topic_id, EmptyDict),
                                                  get_ok)))

DeleteTopicEnd(p) ==
    /\ tp[p].pc = "delete_item"
    /\ \E delete_ok \in BOOLEAN : topics_step(p, delete_topic_end(tp[p], delete_ok))

\* get_topics_by_subject is called and makes its first query.
LookupBegin(p) ==
    /\ tp[p].pc = "idle"
    /\ \E subject_id \in Subjects :
          \E outcome \in QueryOutcomes(subject_id) :
              topics_step(p, reads(query_attempt(
                  TopicCall("lookup", "", [subject_id |-> subject_id]), outcome)))

LookupQuery(p) ==
    /\ tp[p].pc = "query"
    /\ \E outcome \in QueryOutcomes(tp[p].data.subject_id) :
          topics_step(p, reads(query_attempt(tp[p], outcome)))

LookupScan(p) ==
    /\ tp[p].pc = "scan"
    /\ \E outcome \in ScanOutcomes(tp[p].data.subject_id) :
          topics_step(p, reads(fallback_scan(tp[p], outcome)))

InitTopics ==
    /\ ProxyIdle /\ RecordsIdle /\ UsersIdle
    /\ topics_table \in SeedTopics
    /\ tp = [p \in {1, 2} |-> NotStarted]

NextTopics ==
    \/ \E p \in TopicCalls : CreateTopic(p)
    \/ \E p \in TopicCalls : UpdateTopicBegin(p)
    \/ \E p \in TopicCalls : UpdateTopicEnd(p)
    \/ \E p \in TopicCalls : DeleteTopicBegin(p)
    \/ \E p \in TopicCalls : DeleteTopicEnd(p)
    \/ \E p \in TopicCalls : LookupBegin(p)
    \/ \E p \in TopicCalls : LookupQuery(p)
    \/ \E p \in TopicCalls : LookupScan(p)

SpecTopics == InitTopics /\ [][NextTopics]_vars

---------------------------------------------------------------------------
(* C26 *)

\* The calls of get_topics_by_subject, and those that have returned.
Lookups == {p \in TopicCalls : tp[p].pc # "idle" /\ tp[p].op = "lookup"}

Returned(p) == tp[p].pc = "done"

\* The queries of a lookup that returned items.
Fruitful(p) == {k \in 1..Len(tp[p].queries) : tp[p].queries[k].items # {}}

---------------------------------------------------------------------------
(* C30 *)

\* The topics in the store that lack a field create_topic requires.
Partial ==
    {id \in DOMAIN topics_table :
        \E k \in 1..Len(topic_required_fields) :
            topic_required_fields[k] \notin DOMAIN topics_table[id]}

\* C30 as claimed: update_topic and delete_topic answer 404 when the topic is
\* absent at their get_item, and whatever the interleaving of update_topic
\* and delete_topic calls, every topic in the store has name, subject_id,
\* school_id and class_id: no update re-creates a topic that a concurrent
\* delete has removed.
C30_AsClaimed ==
    /\ \A p \in TopicCalls :
          (tp[p].pc = "done" /\ tp[p].response.statusCode = 404) =>
              tp[p].op \in {"update", "delete"}
    /\ Partial = {}

\* The 404 part alone: a call answered 404 is an update or a delete that
\* stopped at its get_item, and it wrote nothing.
C30_NotFoundWritesNothing ==
    [][\A p \in TopicCalls :
          (tp[p].pc = "idle" /\ tp'[p].pc = "done" /\ tp'[p].response.statusCode = 404) =>
              /\ tp'[p].op \in {"update", "delete"}
              /\ tp'[p].topic_id \notin DOMAIN topics_table
              /\ topics_table' = topics_table]_vars

---------------------------------------------------------------------------
(* C28 *)

\* The last call was a create or an update that carried a status outside
\* VALID_STATUSES.
CarriedInvalidStatus ==
    \/ /\ ar.op = "create"
       /\ "status" \in DOMAIN ar.args.data
       /\ ar.args.data.status \notin VALID_STATUSES
    \/ /\ ar.op = "update"
       /\ "status" \in DOMAIN ar.args.updates
       /\ ar.args.updates.status \notin VALID_STATUSES

\* The records in the store that have no status, or one outside VALID_STATUSES.
WithoutValidStatus ==
    {k \in DOMAIN academic_records :
        \/ "status" \notin DOMAIN academic_records[k]
        \/ academic_records[k].status \notin VALID_STATUSES}

\* C28 as claimed: after any sequence of create, update and delete calls,
\* updates of keys never created or deleted included, every record in the
\* store has a status in VALID_STATUSES, and a create or update that carries
\* another status is answered 400.
C28_AsClaimed ==
    /\ WithoutValidStatus = {}
    /\ CarriedInvalidStatus => ar.response.statusCode = 400

\* The rejection alone: a create or update carrying a status outside
\* VALID_STATUSES is answered 400 and leaves the store as it was.
C28_InvalidStatusRejected ==
    [][CarriedInvalidStatus' =>
          (ar'.response.statusCode = 400 /\ academic_records' = academic_records)]_vars

---------------------------------------------------------------------------
(* C29 *)

\* generate_record_id applied to a stored record's own fields.
id_of_stored(record) ==
    generate_record_id(record.school_id, record.academic_year, record.grade,
                       record.section, record.subject_id)

\* The records in the store that create_academic_record wrote.
Created ==
    {k \in DOMAIN academic_records : "school_id" \in DOMAIN academic_records[k]}

\* C29 as claimed: the record_id of every record that create_academic_record
\* wrote is generate_record_id of the record's stored school_id,
\* academic_year, grade, section and subject_id, and list_records_by_class
\* called with the stored school_id, academic_year, grade and section
\* returns the record.
C29_AsClaimed ==
    \A k \in Created :
        LET record == academic_records[k]
        IN  /\ record.record_id = id_of_stored(record)
            /\ record \in list_records_by_class(record.school_id, record.academic_year,
                              record.grade, record.section, TRUE).response.body.json

---------------------------------------------------------------------------
(***************************************************************************)
(* Registration, auth_lambda_function.py.  A call is a process with one    *)
(* step per access to the users table: the query of email-index, then the  *)
(* put_item.  Emails and names are sequences of characters.                *)
(***************************************************************************)

RegisterCalls == DOMAIN reg

user_required_fields == <<"email", "password", "name", "user_type">>

valid_user_types == <<"teacher", "student", "parent">>

\* str.lower(), on the characters the model uses
lower_char(c) == IF c = "A" THEN "a" ELSE IF c = "B" THEN "b" ELSE c

str_lower(str) == [k \in 1..Len(str) |-> lower_char(str[k])]

\* str.strip()
RECURSIVE str_strip(_)
str_strip(str) ==
    IF str = <<>> THEN <<>>
    ELSE IF Head(str) = " " THEN str_strip(Tail(str))
    ELSE IF str[Len(str)] = " " THEN str_strip(SubSeq(str, 1, Len(str) - 1))
    ELSE str

user_response(statusCode, body) == [statusCode |-> statusCode, body |-> json_dumps(body)]

register_done(st, statusCode, body) ==
    [st EXCEPT !.pc = "done", !.response = user_response(statusCode, body)]

\* A registration that has started.
RegisterCall(user_data) ==
    [pc |-> "started", user_data |-> user_data, user_id |-> "",
     response |-> [statusCode |-> 0, body |-> EmptyString]]

\* table.query(IndexName='email-index', Key('email').eq(email))['Items']
email_index(table, email) ==
    {table[u] : u \in {x \in DOMAIN table : table[x].email = email}}

missing_user_field(user_data) ==
    CHOOSE k \in 1..Len(user_required_fields) :
        /\ user_required_fields[k] \notin DOMAIN user_data
        /\ \A j \in 1..(k - 1) : user_required_fields[j] \in DOMAIN user_data

\* register_user up to its put_item: the validation and the check for an
\* existing user, whose exception is printed and otherwise ignored.
register_user_begin(st, query_ok) ==
    LET user_data == st.user_data
    IN  IF \E k \in 1..Len(user_required_fields) : user_required_fields[k] \notin DOMAIN user_data
        THEN register_done(st, 400, [error |-> <<"Missing required field: ",
                              user_required_fields[missing_user_field(user_data)]>>])
        ELSE IF \A k \in 1..Len(valid_user_types) : valid_user_types[k] # user_data.user_type
        THEN register_done(st, 400, [error |-> <<"Invalid user type. Must be one of: ",
                                                 valid_user_types>>])
        ELSE IF query_ok /\ email_index(users_table, user_data.email) # {}
        THEN register_done(st, 409, [error |-> <<"User with this email already exists">>])
        ELSE [st EXCEPT !.pc = "put_item"]

\* The item register_user stores; user_id is the uuid4.
user_item(user_data, user_id) ==
    [user_id |-> user_id,
     email |-> str_strip(str_lower(user_data.email)),
     password_hash |-> "hash",
     salt |-> "salt",
     name |-> str_strip(user_data.name),
     user_type |-> user_data.user_type,
     class_access |-> dict_get(user_data, "class_access", <<>>),
     school_id |-> dict_get(user_data, "school_id", ""),
     is_active |-> TRUE,
     created_at |-> "now",
     updated_at |-> "now",
     last_login |-> Null]

\* put_item and the answer
register_user_end(st, user_id, put_ok) ==
    LET item == user_item(st.user_data, user_id)
    IN  IF ~put_ok
        THEN [st |-> register_done(st, 500, [error |-> <<"ClientError">>]),
              table |-> users_table]
        ELSE [st |-> register_done([st EXCEPT !.user_id = user_id], 201,
                        [user |-> [user_id |-> user_id, email |-> item.email,
                                   name |-> item.name, user_type |-> item.user_type,
                                   class_access |-> item.class_access,
                                   school_id |-> item.school_id, created_at |-> "now"],
                         token |-> "jwt",
                         message |-> <<"User registered successfully">>]),
              table |-> table_put(users_table, user_id, item)]

UserIds == {"u1", "u2"}

UserEmails == {<<"a">>, <<"A">>, <<"a", " ">>, <<"b">>}

UserData ==
    {[email |-> m, password |-> "pw", name |-> <<"n", " ">>, user_type |-> "teacher"] :
        m \in UserEmails}
    \cup {[email |-> <<"a">>, password |-> "pw", name |-> <<"n">>],
          [email |-> <<"a">>, password |-> "pw", name |-> <<"n">>, user_type |-> "admin"]}

register_step(p, result) ==
    /\ reg' = [reg EXCEPT ![p] = result.st]
    /\ users_table' = result.table
    /\ UNCHANGED <<proxy_vars, records_vars, topics_vars>>

RegisterBegin(p) ==
    /\ reg[p].pc = "idle"
    /\ \E user_data \in UserData, query_ok \in BOOLEAN :
          register_step(p, [st |-> register_user_begin(RegisterCall(user_data), query_ok),
                            table |-> users_table])

RegisterEnd(p) ==
    /\ reg[p].pc = "put_item"
    /\ \E user_id \in UserIds \ DOMAIN users_table, put_ok \in BOOLEAN :
          register_step(p, register_user_end(reg[p], user_id, put_ok))

InitUsers ==
    /\ ProxyIdle /\ RecordsIdle /\ TopicsIdle
    /\ users_table = <<>>
    /\ reg = [p \in {1, 2} |-> NotStarted]

NextUsers ==
    \/ \E p \in RegisterCalls : RegisterBegin(p)
    \/ \E p \in RegisterCalls : RegisterEnd(p)

SpecUsers == InitUsers /\ [][NextUsers]_vars

---------------------------------------------------------------------------
(* C27 *)

\* The pairs of distinct stored users with the same stored email.
SameEmail ==
    {pair \in (DOMAIN users_table) \X (DOMAIN users_table) :
        /\ pair[1] # pair[2]
        /\ users_table[pair[1]].email = users_table[pair[2]].email}

\* C27 as claimed: whatever the sequence of register_user calls, one after
\* the other or overlapping, no two stored users have the same stored
\* (lower-cased, trimmed) email.
C27_AsClaimed == SameEmail = {}

\* What the check does ensure: a call answered 409 sent an email that is,
\* as sent, the stored email of a user, and it wrote nothing.
C27_ConflictWritesNothing ==
    [][\A p \in RegisterCalls :
          (reg[p].pc = "idle" /\ reg'[p].pc = "done" /\ reg'[p].response.statusCode = 409) =>
              /\ email_index(users_table, reg'[p].user_data.email) # {}
              /\ users_table' = users_table]_vars

====
